---------------------------- MODULE Spec2Model ----------------------------
(***************************************************************************)
(* ACH Estimation Tracker: releases, resources and monthly allocations,    *)
(* the cost derivation over them and the CSV export / import.              *)
(*                                                                         *)
(* Representation.  A string is a sequence of one-character strings, so    *)
(* that formatting, quoting, tokenising and trimming are computed on the   *)
(* characters.  A number is an IEEE 754 double: sign, significand and      *)
(* binary exponent, every operation rounded to the nearest double.  An     *)
(* identifier produced by crypto.randomUUID() is the next value of a       *)
(* counter; 0 is the empty string ''.  A Date is its time value in days    *)
(* and milliseconds; local time follows the history of the host's zone.    *)
(***************************************************************************)
EXTENDS Integers, Sequences, FiniteSets, TLC

VARIABLES
    releases,           \* App state: Release[]
    resources,          \* App state: Resource[]
    allocations,        \* App state: Allocation[]
    selectedReleaseId,  \* App state: id of the active release, 0 = ''
    resourceToAddId,    \* App state: value of the "resource to add" select
    nextId,             \* the next identifier crypto.randomUUID() returns
    last,               \* the handler that ran last, with its arguments
    aiSummary,          \* App state: the summary shown, with the data it was made from
    isGeneratingAi,     \* App state: a summary request is running
    pending,            \* the summary requests whose handler has not resumed yet
    tz,                 \* the host's time zone (fixed for a run)
    pc,                 \* position of the function call under test
    args,               \* inputs of the function call under test
    ret                 \* result of the function call under test

vars == <<releases, resources, allocations, selectedReleaseId, resourceToAddId,
          nextId, last, aiSummary, isGeneratingAi, pending, tz, pc, args, ret>>

aiVars == <<aiSummary, isGeneratingAi, pending>>

appVars == <<releases, resources, allocations, selectedReleaseId,
             resourceToAddId, nextId, last, aiVars>>

callVars == <<pc, args, ret>>

-----------------------------------------------------------------------------
(* Bounds of the model *)

\* first calendar year of the month tokens the model draws from
BaseYear == 2024
\* number of consecutive months, from September of BaseYear, drawn as tokens
MonthSpan == 8

-----------------------------------------------------------------------------
(* Characters and strings *)

DigitChars == <<"0", "1", "2", "3", "4", "5", "6", "7", "8", "9">>

Digits == {DigitChars[d] : d \in 1..10}

IsDigit(c) == c \in Digits

DigitVal(c) == (CHOOSE d \in 1..10 : DigitChars[d] = c) - 1

\* the white space and line terminator characters of JavaScript that a string
\* of this module can hold: space, tab, line feed, carriage return, form
\* feed, vertical tab (U+000B), no-break space (U+00A0), U+1680 and U+FEFF.
\* (U+2000..U+200A, U+2028, U+2029, U+202F, U+205F and U+3000 are white space
\* too; no string of this module can hold them.)
WhiteSpaceChars ==
    {" ", "\t", "\n", "\r", "\f", "", " ", " ", "﻿"}

\* the line terminators: line feed and carriage return (and U+2028, U+2029)
LineTerminators == {"\n", "\r"}

\* \s of the regular expressions and of String.prototype.trim
IsSpace(c) == c \in WhiteSpaceChars

RECURSIVE NatToStr(_)
\* String(n) for an integer n >= 0
NatToStr(n) ==
    IF n < 10 THEN <<DigitChars[n + 1]>>
    ELSE NatToStr(n \div 10) \o <<DigitChars[(n % 10) + 1]>>

RECURSIVE StrToNat(_, _)
\* value of a run of digits, acc the value read so far
StrToNat(s, acc) ==
    IF s = <<>> THEN acc
    ELSE StrToNat(Tail(s), acc * 10 + DigitVal(Head(s)))

AllDigits(s) == \A i \in 1..Len(s) : IsDigit(s[i])

\* String.prototype.padStart(2, '0')
PadStart2(s) == IF Len(s) < 2 THEN <<"0">> \o s ELSE s

\* the positions of s that hold no white space, and those that hold no digit
NonSpaces(s) == {j \in 1..Len(s) : ~IsSpace(s[j])}
NonDigits(s) == {j \in 1..Len(s) : ~IsDigit(s[j])}

\* length of the longest run of characters of s, from index from on, that
\* are at none of the positions others
RunLen(s, from, others) ==
    LET stops == {j \in from..Len(s) : j \in others}
    IN  IF stops # {} THEN (CHOOSE j \in stops : \A k \in stops : j <= k) - from
        ELSE IF from > Len(s) THEN 0
        ELSE Len(s) - from + 1

-----------------------------------------------------------------------------
(* Natural numbers of any size *)

\* The integers of TLC are 32 bits wide; the significand of a double has 53
\* bits, and the exact products and quotients that are rounded to a double
\* have more.  A natural number of any size is the sequence of its digits
\* ("limbs") in base LimbBase, least significant first, without zeros at the
\* high end; 0 is <<>>.  The product of two limbs plus two limbs is below
\* 2^31.
LimbBase == 2^15
LimbBits == CHOOSE b \in 1..30 : 2^b = LimbBase

Abs(n) == IF n < 0 THEN -n ELSE n

Larger(a, b) == IF a > b THEN a ELSE b
Smaller(a, b) == IF a < b THEN a ELSE b

\* the i-th limb of a, 0 beyond its high end
Limb(a, i) == IF i >= 1 /\ i <= Len(a) THEN a[i] ELSE 0

\* the position of the highest limb of a that is not 0, 0 when there is none
HighestLimb(a) ==
    CHOOSE i \in 0..Len(a) : (i = 0 \/ a[i] # 0) /\ \A j \in (i + 1)..Len(a) : a[j] = 0

\* a without zeros at its high end
BigTrim(a) == SubSeq(a, 1, HighestLimb(a))

RECURSIVE BigOfNat(_)
\* the limbs of an integer n >= 0
BigOfNat(n) ==
    IF n = 0 THEN <<>> ELSE <<n % LimbBase>> \o BigOfNat(n \div LimbBase)

\* the number of binary digits of an integer n >= 0
NatBits(n) ==
    IF n = 0 THEN 0
    ELSE 1 + CHOOSE b \in 0..30 : 2^b <= n /\ (b = 30 \/ n < 2^(b + 1))

\* the number of binary digits of a
BigBits(a) ==
    IF a = <<>> THEN 0 ELSE LimbBits * (Len(a) - 1) + NatBits(a[Len(a)])

\* Sums, differences and products by an integer are taken limb by limb from
\* the low end, the carry of each limb going into the next; the result of a
\* run of limbs ends with the carry out of it.  Numbers of many limbs are
\* taken in runs of RunLimbs limbs.
RunLimbs == LimbBits \div 2 + 1

RECURSIVE AddFrom(_, _, _, _, _)
\* the limbs i..to of a + b
AddFrom(a, b, i, to, carry) ==
    IF i > to THEN <<carry>>
    ELSE LET x == Limb(a, i) + Limb(b, i) + carry
         IN  <<x % LimbBase>> \o AddFrom(a, b, i + 1, to, x \div LimbBase)

RECURSIVE AddRuns(_, _, _, _, _)
\* the limbs below i of a + b, low, with the limbs i..to
AddRuns(a, b, i, to, low) ==
    IF i > to THEN low
    ELSE AddRuns(a, b, i + RunLimbs, to,
             SubSeq(low, 1, Len(low) - 1)
             \o AddFrom(a, b, i, Smaller(i + RunLimbs - 1, to), low[Len(low)]))

\* a + b
BigAdd(a, b) == BigTrim(AddRuns(a, b, 1, Larger(Len(a), Len(b)), <<0>>))

RECURSIVE SubFrom(_, _, _, _, _)
\* the limbs i..to of a - b, the carry being 0 or -1
SubFrom(a, b, i, to, carry) ==
    IF i > to THEN <<carry>>
    ELSE LET x == a[i] - Limb(b, i) + carry
         IN  <<x % LimbBase>> \o SubFrom(a, b, i + 1, to, x \div LimbBase)

RECURSIVE SubRuns(_, _, _, _, _)
\* the limbs below i of a - b, low, with the limbs i..to
SubRuns(a, b, i, to, low) ==
    IF i > to THEN low
    ELSE SubRuns(a, b, i + RunLimbs, to,
             SubSeq(low, 1, Len(low) - 1)
             \o SubFrom(a, b, i, Smaller(i + RunLimbs - 1, to), low[Len(low)]))

\* a - b for a >= b
BigSub(a, b) == BigTrim(SubRuns(a, b, 1, Len(a), <<0>>))

RECURSIVE MulSmallFrom(_, _, _, _, _)
\* the limbs i..to of a * s
MulSmallFrom(a, s, i, to, carry) ==
    IF i > to THEN <<carry>>
    ELSE LET x == a[i] * s + carry
         IN  <<x % LimbBase>> \o MulSmallFrom(a, s, i + 1, to, x \div LimbBase)

RECURSIVE MulSmallRuns(_, _, _, _, _)
\* the limbs below i of a * s, low, with the limbs i..to
MulSmallRuns(a, s, i, to, low) ==
    IF i > to THEN low
    ELSE MulSmallRuns(a, s, i + RunLimbs, to,
             SubSeq(low, 1, Len(low) - 1)
             \o MulSmallFrom(a, s, i, Smaller(i + RunLimbs - 1, to), low[Len(low)]))

\* a * s for an integer 0 <= s < LimbBase
BigMulSmall(a, s) ==
    IF s = 0 THEN <<>> ELSE BigTrim(MulSmallRuns(a, s, 1, Len(a), <<0>>))

\* the order of a and b of one length, i the highest position where they
\* differ
CmpAt(a, b, i) == IF a[i] < b[i] THEN -1 ELSE 1

\* -1, 0 or 1 as a is less than, equal to or greater than b
BigCmp(a, b) ==
    IF Len(a) # Len(b) THEN (IF Len(a) < Len(b) THEN -1 ELSE 1)
    ELSE IF a = b THEN 0
    ELSE CmpAt(a, b, CHOOSE i \in 1..Len(a) :
                         a[i] # b[i] /\ \A j \in (i + 1)..Len(a) : a[j] = b[j])

RECURSIVE MulRange(_, _, _, _)
\* a times the limbs from..to of b at their positions
MulRange(a, b, from, to) ==
    IF from = to THEN [i \in 1..(from - 1) |-> 0] \o BigMulSmall(a, b[from])
    ELSE BigAdd(MulRange(a, b, from, (from + to) \div 2),
                MulRange(a, b, (from + to) \div 2 + 1, to))

\* a * b
BigMul(a, b) ==
    IF a = <<>> \/ b = <<>> THEN <<>>
    ELSE BigTrim(IF Len(a) < Len(b) THEN MulRange(b, a, 1, Len(a))
                 ELSE MulRange(a, b, 1, Len(b)))

\* a * 2^bits
BigShl(a, bits) ==
    IF a = <<>> THEN <<>>
    ELSE [i \in 1..(bits \div LimbBits) |-> 0] \o BigMulSmall(a, 2^(bits % LimbBits))

\* the limbs from position low + 1 on of a without their r < LimbBits lowest
\* bits
ShrLimbs(a, low, r) ==
    BigTrim([i \in 1..(Len(a) - low) |->
                Limb(a, low + i) \div 2^r
                + (Limb(a, low + i + 1) % 2^r) * 2^(LimbBits - r)])

\* the integer part of a / 2^bits
BigShr(a, bits) == ShrLimbs(a, bits \div LimbBits, bits % LimbBits)

\* bit j of a (bit 0 is the lowest)
BigBit(a, j) == (Limb(a, j \div LimbBits + 1) \div 2^(j % LimbBits)) % 2

\* one of the bits 0..j-1 of a is set
BigLowBits(a, j) ==
    \/ \E i \in 1..(j \div LimbBits) : Limb(a, i) # 0
    \/ Limb(a, j \div LimbBits + 1) % 2^(j % LimbBits) # 0

\* the number of zero bits at the low end of an integer n >= 1
NatTrailingZeros(n) == CHOOSE z \in 0..30 : n % 2^z = 0 /\ (n \div 2^z) % 2 = 1

\* the number of zero bits at the low end of a, with lowest the position of
\* its lowest limb that is not 0
TrailingZerosAt(a, lowest) == LimbBits * (lowest - 1) + NatTrailingZeros(a[lowest])

BigTrailingZeros(a) ==
    TrailingZerosAt(a, CHOOSE i \in 1..Len(a) : a[i] # 0 /\ \A j \in 1..(i - 1) : a[j] = 0)

\* A long division goes from the high end of the dividend down: st.i is the
\* position of the next limb, st.q the quotient of the limbs above it and
\* st.r their remainder.  It starts below the first high limbs of the
\* dividend, which are their own remainder.
DivStart(high, r) == [i |-> high, q |-> <<>>, r |-> r]

TrimQuotient(st) == [q |-> BigTrim(st.q), r |-> st.r]

RECURSIVE DivSmallLoop(_, _, _)
\* the long division of a by the integer s
DivSmallLoop(a, s, st) ==
    IF st.i = 0 THEN st
    ELSE DivSmallLoop(a, s, [i |-> st.i - 1,
                             q |-> <<(st.r * LimbBase + a[st.i]) \div s>> \o st.q,
                             r |-> (st.r * LimbBase + a[st.i]) % s])

\* quotient q and remainder r of a by an integer 0 < s <= LimbBase
BigDivSmall(a, s) == TrimQuotient(DivSmallLoop(a, s, DivStart(Len(a), 0)))

RECURSIVE QuotientDigit(_, _, _)
\* quotient and remainder of r by den for r < den * LimbBase, q taken so
\* far: an estimate from the leading limbs that is never too large is
\* subtracted until the remainder is below den
QuotientDigit(r, den, q) ==
    IF BigCmp(r, den) < 0 THEN [q |-> q, r |-> r]
    ELSE LET est == Larger(1, (Limb(r, Len(den)) + Limb(r, Len(den) + 1) * LimbBase)
                                   \div (den[Len(den)] + 1))
         IN  QuotientDigit(BigSub(r, BigMulSmall(den, est)), den, q + est)

\* the division st with the digit of its next limb
DivPut(st, digit) == [i |-> st.i - 1, q |-> <<digit.q>> \o st.q, r |-> digit.r]

RECURSIVE DivLoop(_, _, _)
\* the long division of num by den
DivLoop(num, den, st) ==
    IF st.i = 0 THEN st
    ELSE DivLoop(num, den,
             DivPut(st, QuotientDigit(BigTrim(<<num[st.i]>> \o st.r), den, 0)))

\* quotient q and remainder r of num by den > 0
BigDivMod(num, den) ==
    IF Len(num) < Len(den) THEN [q |-> <<>>, r |-> num]
    ELSE TrimQuotient(DivLoop(num, den,
             DivStart(Len(num) - Len(den) + 1,
                      SubSeq(num, Len(num) - Len(den) + 2, Len(num)))))

\* p * 10^16
Pow10Step(p) ==
    BigMulSmall(BigMulSmall(BigMulSmall(BigMulSmall(p, 10000), 10000), 10000), 10000)

RECURSIVE Pow10Loop(_)
\* st.p * 10^st.k, sixteen digits at a time
Pow10Loop(st) ==
    IF st.k <= 4 THEN BigMulSmall(st.p, 10^st.k)
    ELSE IF st.k < 16 THEN Pow10Loop([k |-> st.k - 4, p |-> BigMulSmall(st.p, 10000)])
    ELSE Pow10Loop([k |-> st.k - 16, p |-> Pow10Step(st.p)])

\* 10^k
BigPow10(k) == Pow10Loop([k |-> k, p |-> <<1>>])

-----------------------------------------------------------------------------
(* Numbers *)

\* A number is a double: NaN, Infinity, -Infinity, 0 or a finite value
\* s * m * 2^k with the sign s, an odd natural number m below 2^53 and
\* -1074 <= k.  Every operation rounds its exact result to the nearest
\* double, ties to the even significand, as IEEE 754 arithmetic does.  A
\* value without limbs is 0 (s = 0), NaN (s = 0, k = 1) or infinite (s # 0).
\* -0 and 0 are one value (the program never tells them apart).
NaN == [s |-> 0, m |-> <<>>, k |-> 1]
Zero == [s |-> 0, m |-> <<>>, k |-> 0]
Infinity == [s |-> 1, m |-> <<>>, k |-> 0]
NegInfinity == [s |-> -1, m |-> <<>>, k |-> 0]

IsFinite(x) == x.m # <<>> \/ x = Zero

Sign(x) == x.s

\* the sign of an infinite result
Inf(sgn) == IF sgn < 0 THEN NegInfinity ELSE Infinity

\* sgn * m * 2^k written with an odd significand, low the number of zero bits
\* at the low end of m
OddSignificand(sgn, m, k, low) == [s |-> sgn, m |-> BigShr(m, low), k |-> k + low]

\* the double sgn * m * 2^k for m of at most 53 bits (or 2^53): Infinity
\* from 2^1024 on
Finite(sgn, m, k) ==
    LET MaxBits == 1024
    IN  IF m = <<>> THEN Zero
        ELSE IF BigBits(m) + k > MaxBits THEN Inf(sgn)
        ELSE OddSignificand(sgn, m, k, BigTrailingZeros(m))

BigIncrIf(m, up) == IF up THEN BigAdd(m, <<1>>) ELSE m

\* q * 2^e, or a little more when sticky, without the last drop bits of q:
\* rounded to the nearest, and to the even one of two nearest
RoundDropped(sgn, q, e, sticky, drop) ==
    IF drop <= 0 THEN Finite(sgn, q, e)
    ELSE Finite(sgn,
                BigIncrIf(BigShr(q, drop),
                          /\ BigBit(q, drop - 1) = 1
                          /\ (sticky \/ BigLowBits(q, drop - 1) \/ BigBit(q, drop) = 1)),
                e + drop)

\* the double nearest to sgn * q * 2^e for a natural number q (a little more
\* than q when sticky; q then has more than 54 bits): 53 bits are kept, fewer
\* below 2^-1022, where the doubles are the multiples of 2^-1074
Round(sgn, q, e, sticky) ==
    LET Precision == 53
        MinExponent == -1074
    IN  RoundDropped(sgn, q, e, sticky, Larger(BigBits(q) - Precision, MinExponent - e))

\* quotient and remainder of a division, rounded
RoundQuotient(sgn, dm, e) == Round(sgn, dm.q, e, dm.r # <<>>)

\* sgn * (p / q) * 2^e with p or q scaled by 2^a
RatioShifted(sgn, p, q, e, a) ==
    RoundQuotient(sgn,
                  BigDivMod(IF a >= 0 THEN BigShl(p, a) ELSE p,
                            IF a >= 0 THEN q ELSE BigShl(q, -a)),
                  e - a)

\* the double nearest to sgn * (p / q) * 2^e for natural numbers p, q >= 1:
\* the quotient is taken to QuotientBits bits or one more
Ratio(sgn, p, q, e) ==
    LET QuotientBits == 56
    IN  RatioShifted(sgn, p, q, e, QuotientBits - (BigBits(p) - BigBits(q)))

\* the double nearest to sgn * p / q for natural numbers p, q >= 1
Quotient(sgn, p, q) == IF q = <<1>> THEN Round(sgn, p, 0, FALSE) ELSE Ratio(sgn, p, q, 0)

\* the double nearest to sgn * digits * 10^e for digits >= 1, scale being
\* 10^|e|
ScaledValue(sgn, digits, e, scale) ==
    Quotient(sgn, IF e >= 0 THEN BigMul(digits, scale) ELSE digits,
             IF e >= 0 THEN <<1>> ELSE scale)

\* the double nearest to sgn * digits * 10^e for a natural number digits
DecimalValue(sgn, digits, e) ==
    IF digits = <<>> THEN Zero ELSE ScaledValue(sgn, digits, e, BigPow10(Abs(e)))

\* the number of an integer, and of the decimal literal n * 10^e
Num(n) == Finite(IF n < 0 THEN -1 ELSE 1, BigOfNat(Abs(n)), 0)
Decimal(n, e) == DecimalValue(IF n < 0 THEN -1 ELSE 1, BigOfNat(Abs(n)), e)

\* a * b
Mul(a, b) ==
    IF a = NaN \/ b = NaN THEN NaN
    ELSE IF ~IsFinite(a) \/ ~IsFinite(b)
    THEN (IF a.s * b.s = 0 THEN NaN ELSE Inf(a.s * b.s))
    ELSE IF a.s * b.s = 0 THEN Zero
    ELSE Round(a.s * b.s, BigMul(a.m, b.m), a.k + b.k, FALSE)

\* a / b
Div(a, b) ==
    IF a = NaN \/ b = NaN THEN NaN
    ELSE IF ~IsFinite(a) THEN (IF ~IsFinite(b) THEN NaN
                              ELSE Inf(a.s * (IF b.s < 0 THEN -1 ELSE 1)))
    ELSE IF ~IsFinite(b) THEN Zero
    ELSE IF b.s = 0 THEN (IF a.s = 0 THEN NaN ELSE Inf(a.s))
    ELSE IF a.s = 0 THEN Zero
    ELSE Ratio(a.s * b.s, a.m, b.m, a.k - b.k)

\* sa * x + sb * y for sa # sb, c the order of x and y
Difference(sa, x, sb, y, k, c) ==
    IF c = 0 THEN Zero
    ELSE IF c > 0 THEN Round(sa, BigSub(x, y), k, FALSE)
    ELSE Round(sb, BigSub(y, x), k, FALSE)

\* (sa * x + sb * y) * 2^k
SignedSum(sa, x, sb, y, k) ==
    IF sa = sb THEN Round(sa, BigAdd(x, y), k, FALSE)
    ELSE Difference(sa, x, sb, y, k, BigCmp(x, y))

\* a + b for finite a and b other than 0, k the smaller of their exponents
SumAligned(a, b, k) ==
    SignedSum(a.s, BigShl(a.m, a.k - k), b.s, BigShl(b.m, b.k - k), k)

\* a + b for finite a and b other than 0 when b is below a quarter of the last
\* place of a: a with GuardBits more bits, and a little more or less
SumFar(a, b) ==
    LET GuardBits == 60
    IN  Round(a.s,
              IF a.s = b.s THEN BigShl(a.m, GuardBits)
              ELSE BigSub(BigShl(a.m, GuardBits), <<1>>),
              a.k - GuardBits, TRUE)

\* a + b for finite a and b other than 0
SumFinite(a, b) ==
    LET GuardBits == 60
    IN  IF BigBits(b.m) + b.k <= a.k - GuardBits THEN SumFar(a, b)
        ELSE IF BigBits(a.m) + a.k <= b.k - GuardBits THEN SumFar(b, a)
        ELSE SumAligned(a, b, Smaller(a.k, b.k))

\* a + b on numbers
Add(a, b) ==
    IF a = NaN \/ b = NaN THEN NaN
    ELSE IF ~IsFinite(a) THEN (IF ~IsFinite(b) /\ a # b THEN NaN ELSE a)
    ELSE IF ~IsFinite(b) THEN b
    ELSE IF a.s = 0 THEN b
    ELSE IF b.s = 0 THEN a
    ELSE SumFinite(a, b)

\* -a
Neg(a) == [a EXCEPT !.s = -a.s]

\* a < b (and b > a): false when either is NaN
Less(a, b) ==
    /\ a # NaN /\ b # NaN /\ a # b
    /\ IF ~IsFinite(a) \/ ~IsFinite(b)
       THEN a = NegInfinity \/ b = Infinity
       ELSE Sign(Add(b, Neg(a))) > 0

\* isNaN(x)
isNaN(x) == x = NaN

\* (x || 0): NaN and 0 are falsy
OrZero(x) == IF x = NaN THEN Zero ELSE x

-----------------------------------------------------------------------------
(* Number formatting and parsing *)

NaNStr == <<"N", "a", "N">>
InfinityStr == <<"I", "n", "f", "i", "n", "i", "t", "y">>

\* a run of k zeros
Zeros(k) == [i \in 1..k |-> "0"]

RECURSIVE StripLeadingZeros(_)
StripLeadingZeros(s) == IF s # <<>> /\ Head(s) = "0" THEN StripLeadingZeros(Tail(s)) ELSE s

RECURSIVE StripTrailingZeros(_)
StripTrailingZeros(s) ==
    IF s # <<>> /\ s[Len(s)] = "0" THEN StripTrailingZeros(SubSeq(s, 1, Len(s) - 1)) ELSE s

\* the last four decimal digits of a natural number, as characters
FourDigits(n) ==
    <<DigitChars[(n \div 1000) + 1], DigitChars[((n \div 100) % 10) + 1],
      DigitChars[((n \div 10) % 10) + 1], DigitChars[(n % 10) + 1]>>

RECURSIVE DigitsLoop(_)
\* the decimal digits of st.a followed by st.s, four digits at a time
DigitsLoop(st) ==
    IF st.a = <<>> THEN st.s
    ELSE DigitsLoop([a |-> BigDivSmall(st.a, 10000).q,
                     s |-> FourDigits(BigDivSmall(st.a, 10000).r) \o st.s])

\* the decimal digits of a natural number a >= 1
BigToStr(a) == StripLeadingZeros(DigitsLoop([a |-> a, s |-> <<>>]))

RECURSIVE OfDigitsLoop(_)
\* the natural number with the digits of st.a followed by the digits st.s
OfDigitsLoop(st) ==
    IF st.s = <<>> THEN st.a
    ELSE OfDigitsLoop([a |-> BigAdd(BigMulSmall(st.a, 10), BigOfNat(DigitVal(Head(st.s)))),
                       s |-> Tail(st.s)])

\* the natural number with the decimal digits s
BigOfStr(s) == OfDigitsLoop([a |-> <<>>, s |-> s])

\* -1, 0 or 1 as p / q is less than, equal to or greater than 10^j
CmpScaled(p, q, j, scaled) ==
    BigCmp(IF j >= 0 THEN p ELSE scaled, IF j >= 0 THEN scaled ELSE q)

CmpPow10(p, q, j) == CmpScaled(p, q, j, BigMul(IF j >= 0 THEN q ELSE p, BigPow10(Abs(j))))

\* the decimal exponent n of p / q: 10^n <= p / q < 10^(n + 1), est being n
\* or n - 1
DecimalExponentNear(p, q, est) == IF CmpPow10(p, q, est + 1) >= 0 THEN est + 1 ELSE est

\* the decimal exponent of p / q, a value with bits binary digits before the
\* point: log10(2) is 0.30103 to five places
DecimalExponent(p, q, bits) == DecimalExponentNear(p, q, ((bits - 1) * 30103) \div 100000)

\* the digits c with the exponent t of their last place, as Number::toString
\* takes them: the digits s without zeros at the end and the exponent n with
\* c * 10^t = 0.s * 10^n
DigitsAndExponent(str, t) == [s |-> StripTrailingZeros(str), n |-> Len(str) + t]

\* whether the decimal c * 10^t is read back as the double x > 0
ReadsBack(x, c, t) == DecimalValue(1, c, t) = x

\* the first of the decimals cs that is read back as x, <<>> when none is
FirstReadBack(x, cs, t) ==
    LET read == {i \in 1..Len(cs) : ReadsBack(x, cs[i], t)}
    IN  IF read = {} THEN <<>> ELSE cs[CHOOSE i \in read : \A j \in read : i <= j]

\* the decimal of the length of dm.q that is read back as x = (dm.q + dm.r /
\* den) * 10^t, <<>> when there is none: of dm.q and dm.q + 1 on both sides
\* of x the nearer one first, the even one when they are as near (c is the
\* order of 2 * dm.r and den)
NearerFirst(x, dm, t, up, c) ==
    IF dm.r = <<>> THEN dm.q
    ELSE FirstReadBack(x,
             IF c > 0 \/ (c = 0 /\ Limb(dm.q, 1) % 2 = 1) THEN <<up, dm.q>>
             ELSE <<dm.q, up>>,
             t)

DecimalOfLength(x, dm, den, t) ==
    NearerFirst(x, dm, t, BigAdd(dm.q, <<1>>), BigCmp(BigMulSmall(dm.r, 2), den))

\* the decimal of x = num / den * 10^t with the length of the quotient
DecimalOfQuotient(x, num, den, t) == DecimalOfLength(x, BigDivMod(num, den), den, t)

\* scaled is p or q times 10^|t|
DecimalOfScaled(x, p, q, t, scaled) ==
    DecimalOfQuotient(x, IF t >= 0 THEN p ELSE scaled, IF t >= 0 THEN scaled ELSE q, t)

\* the decimal of x = p / q with the exponent t of its last place that is
\* read back as x, <<>> when there is none
ScaledDecimal(x, p, q, t) ==
    DecimalOfScaled(x, p, q, t, BigMul(IF t >= 0 THEN q ELSE p, BigPow10(Abs(t))))

RECURSIVE ShortestLoop(_, _, _, _, _)
\* the shortest decimal of len digits or more that is read back as the
\* double x = p / q with the decimal exponent n
ShortestLoop(x, p, q, n, len) ==
    LET c == ScaledDecimal(x, p, q, n - len + 1)
    IN  IF c # <<>> THEN DigitsAndExponent(BigToStr(c), n - len + 1)
        ELSE ShortestLoop(x, p, q, n, len + 1)

ShortestOfRatio(x, p, q) ==
    ShortestLoop(x, p, q, DecimalExponent(p, q, BigBits(p) - BigBits(q) + 1), 1)

\* the decimal digits s and the exponent n of Number::toString for a finite
\* x > 0: the shortest digits, and of those the nearest to x, with which
\* 0.s * 10^n is read back as x
DigitsOf(x) ==
    ShortestOfRatio(x, IF x.k >= 0 THEN BigShl(x.m, x.k) ELSE x.m,
                    IF x.k >= 0 THEN <<1>> ELSE BigShl(<<1>>, -x.k))

\* Number::toString of the k digits s with the exponent n: plain digits,
\* digits with a point, or the exponent form
DigitLayout(s, k, n) ==
    IF k <= n /\ n <= 21 THEN s \o Zeros(n - k)
    ELSE IF 0 < n /\ n <= 21 THEN SubSeq(s, 1, n) \o <<".">> \o SubSeq(s, n + 1, k)
    ELSE IF -6 < n /\ n <= 0 THEN <<"0", ".">> \o Zeros(-n) \o s
    ELSE (IF k = 1 THEN s ELSE <<s[1], ".">> \o Tail(s))
         \o <<"e", IF n - 1 < 0 THEN "-" ELSE "+">> \o NatToStr(Abs(n - 1))

DigitsToStr(ds) == DigitLayout(ds.s, Len(ds.s), ds.n)

\* String(x) of a number x, as a template literal or Array.prototype.join
\* prints it
NumToStr(x) ==
    IF x = NaN THEN NaNStr
    ELSE IF ~IsFinite(x) THEN (IF x.s < 0 THEN <<"-">> ELSE <<>>) \o InfinityStr
    ELSE IF x.s = 0 THEN <<"0">>
    ELSE (IF x.s < 0 THEN <<"-">> ELSE <<>>) \o DigitsToStr(DigitsOf([x EXCEPT !.s = 1]))

\* the digits m of an integer, at least three, with a point before the last
\* two
PointBeforeLastTwo(m) == SubSeq(m, 1, Len(m) - 2) \o <<".">> \o SubSeq(m, Len(m) - 1, Len(m))

TwoDecimals(cents) ==
    PointBeforeLastTwo(IF Len(cents) < 3 THEN Zeros(3 - Len(cents)) \o cents ELSE cents)

\* the integer nearest to m * 2^k * 100, the larger one of two
NearestCent(m, k) ==
    IF k >= 0 THEN BigMulSmall(BigShl(m, k), 100)
    ELSE BigShr(BigAdd(BigMulSmall(m, 200), BigShl(<<1>>, -k)), 1 - k)

\* cost.toFixed(2): the integer n for which n / 100 is nearest to the exact
\* value of x, the larger one of two, printed with two decimals; String(x)
\* from 1e21 on.  A value below 2^-8 is nearer to 0 than to 0.01.
ToFixed2(x) ==
    LET SmallBits == -8
    IN  IF x = NaN THEN NaNStr
        ELSE IF ~IsFinite(x) \/ (x.s # 0 /\ ~Less([x EXCEPT !.s = 1], Decimal(1, 21)))
        THEN NumToStr(x)
        ELSE IF x.s = 0 \/ BigBits(x.m) + x.k < SmallBits
        THEN (IF x.s < 0 THEN <<"-">> ELSE <<>>) \o <<"0", ".", "0", "0">>
        ELSE (IF x.s < 0 THEN <<"-">> ELSE <<>>)
             \o TwoDecimals(IF NearestCent(x.m, x.k) = <<>> THEN <<"0">>
                            ELSE BigToStr(NearestCent(x.m, x.k)))

\* the value of an exponent of the given digits
ExponentValue(negative, digits) ==
    LET MaxExpDigits == 4
        expVal == IF Len(digits) > MaxExpDigits THEN 10^MaxExpDigits
                  ELSE StrToNat(digits, 0)
    IN  IF negative THEN -expVal ELSE expVal

\* ExponentPart at position i of s: e or E, an optional sign, digits; 0 when
\* there is none
ExponentPart(s, i) ==
    LET hasE == i <= Len(s) /\ s[i] \in {"e", "E"}
        expSigned == hasE /\ i + 1 <= Len(s) /\ s[i + 1] \in {"-", "+"}
        i2 == i + 1 + (IF expSigned THEN 1 ELSE 0)
    IN  IF ~hasE THEN 0
        ELSE ExponentValue(expSigned /\ s[i + 1] = "-",
                 StripLeadingZeros(SubSeq(s, i2, i2 + RunLen(s, i2, NonDigits(s)) - 1)))

\* the double nearest to the decimal with the digits digits (without zeros at
\* either end) and the exponent e of its last digit: Infinity from 10^309
\* on, 0 below 10^-324 (half of the smallest double is 2.47e-324)
DecimalOfDigits(sgn, digits, e) ==
    LET MaxDecimalExponent == 309
        MinDecimalExponent == -324
    IN  IF digits = <<>> THEN Zero
        ELSE IF Len(digits) - 1 + e >= MaxDecimalExponent THEN Inf(sgn)
        ELSE IF Len(digits) + e < MinDecimalExponent THEN Zero
        ELSE DecimalValue(sgn, BigOfStr(digits), e)

\* the number of the digits all without their trailing zeros, digits,
\* lenFrac of all after the point
DigitsValue(sgn, lenFrac, all, digits, exp) ==
    DecimalOfDigits(sgn, digits, exp - lenFrac + (Len(all) - Len(digits)))

SignificantDigits(sgn, lenFrac, all, exp) ==
    DigitsValue(sgn, lenFrac, all, StripTrailingZeros(all), exp)

MantissaValue(sgn, intDigits, fracDigits, exp) ==
    SignificantDigits(sgn, Len(fracDigits), StripLeadingZeros(intDigits \o fracDigits), exp)

\* nInt digits from i0 on, a point when dot, nFrac digits after it
DecimalDigitsAt(s, sgn, i0, nInt, dot, nFrac) ==
    IF nInt + nFrac = 0 THEN NaN
    ELSE MantissaValue(sgn, SubSeq(s, i0, i0 + nInt - 1),
             StripTrailingZeros(SubSeq(s, i0 + nInt + 1, i0 + nInt + nFrac)),
             ExponentPart(s, i0 + nInt + (IF dot THEN 1 + nFrac ELSE 0)))

FractionAt(s, sgn, i0, nInt) ==
    LET dot == i0 + nInt <= Len(s) /\ s[i0 + nInt] = "."
    IN  DecimalDigitsAt(s, sgn, i0, nInt, dot,
            IF dot THEN RunLen(s, i0 + nInt + 1, NonDigits(s)) ELSE 0)

\* StrUnsignedDecimalLiteral at position i0 of s
StrUnsignedDecimalLiteral(s, sgn, i0) ==
    IF i0 + 7 <= Len(s) /\ SubSeq(s, i0, i0 + 7) = InfinityStr THEN Inf(sgn)
    ELSE FractionAt(s, sgn, i0, RunLen(s, i0, NonDigits(s)))

\* StrDecimalLiteral after ws characters of white space
StrDecimalLiteral(s, ws) ==
    LET signed == ws + 1 <= Len(s) /\ s[ws + 1] \in {"-", "+"}
    IN  StrUnsignedDecimalLiteral(s, IF signed /\ s[ws + 1] = "-" THEN -1 ELSE 1,
            ws + 1 + (IF signed THEN 1 ELSE 0))

\* parseFloat(s): white space is skipped, then the longest prefix that is a
\* StrDecimalLiteral is read: an optional sign, then Infinity, or digits with
\* an optional fraction, or a fraction alone, each with an optional exponent
\* (e or E, an optional sign, digits); NaN when there is none.  An exponent of
\* more than MaxExpDigits digits is beyond every double.
parseFloat(s) == StrDecimalLiteral(s, RunLen(s, 1, NonSpaces(s)))


-----------------------------------------------------------------------------
(* Date helpers: the time values of Date *)

\* A Date is a time value: d whole days since 1970-01-01 UTC and ms
\* milliseconds into that day, or Invalid Date (NaN as time value).
MsPerMinute == 60000
MsPerHour == 3600000
MsPerDay == 86400000

InvalidDate == [d |-> 0, ms |-> -1]

IsValidDate(t) == t.ms >= 0

\* the time value min minutes (and ms milliseconds) after t
PlusMinutes(t, min) ==
    LET total == t.ms + min * MsPerMinute
    IN  [d |-> t.d + total \div MsPerDay, ms |-> total % MsPerDay]

\* a < b and a <= b on time values
DateLess(a, b) == a.d < b.d \/ (a.d = b.d /\ a.ms < b.ms)

\* current <= end on Dates: false when either is an Invalid Date
DateLeq(a, b) == IsValidDate(a) /\ IsValidDate(b) /\ ~DateLess(b, a)

\* MakeDay for the first of a month: the day number of year y, month m
\* (1..12), day d of the proleptic Gregorian calendar
DaysFromCivil(y, m, d) ==
    LET \* the year and the month of the year that begins with March
        y1 == IF m <= 2 THEN y - 1 ELSE y
        mp == (m + 9) % 12
    IN  y1 * 365 + y1 \div 4 - y1 \div 100 + y1 \div 400
            + (153 * mp + 2) \div 5 + d - 1 - 719468

\* the date of day doy of the year y that begins with March, mp its month
CivilOfMonth(y, doy, mp) ==
    LET m == IF mp < 10 THEN mp + 3 ELSE mp - 9
    IN  [y |-> y + (IF m <= 2 THEN 1 ELSE 0), m |-> m, d |-> doy - (153 * mp + 2) \div 5 + 1]

CivilOfYearDay(y, doy) == CivilOfMonth(y, doy, (5 * doy + 2) \div 153)

\* yoe is the year of the era of 400 years, doe the day of the era
CivilOfYear(era, doe, yoe) ==
    CivilOfYearDay(yoe + era * 400, doe - (365 * yoe + yoe \div 4 - yoe \div 100))

CivilOfEra(era, doe) ==
    CivilOfYear(era, doe, (doe - doe \div 1460 + doe \div 36524 - doe \div 146096) \div 365)

\* YearFromTime, MonthFromTime, DateFromTime of a day number
CivilFromDays(z) == CivilOfEra((z + 719468) \div 146097, (z + 719468) % 146097)

\* MakeDay(year, month, date) for any month number m (1 = January of year
\* y, 13 = January of the next year) and any day of the month
MakeDay(y, m, d) ==
    DaysFromCivil(y + (m - 1) \div 12, ((m - 1) % 12) + 1, 1) + d - 1

\* WeekDay: 0 = Sunday
WeekDay(z) == (z + 4) % 7

\* the first Sunday from day z on, and the last one up to day z
SundayFrom(z) == z + ((7 - WeekDay(z)) % 7)
SundayUpTo(z) == z - WeekDay(z)

\* day number of the n-th Sunday of month m of year y
NthSunday(y, m, n) == SundayFrom(DaysFromCivil(y, m, 1)) + 7 * (n - 1)

\* day number of the last Sunday of month m of year y
LastSunday(y, m) == SundayUpTo(MakeDay(y, m + 1, 1) - 1)

-----------------------------------------------------------------------------
(* Date helpers: the host's time zone *)

\* A host time zone.  Until the zone took up its standard time the clock
\* showed local mean time, lmt seconds from UTC; since then it shows std
\* minutes from UTC, dst minutes within the year's span of summer time and one
\* hour more within a span of double summer time.
UTC == [name |-> "UTC", lmt |-> 0, std |-> 0, dst |-> 0]
NewYork == [name |-> "America/New_York", lmt |-> -17762, std |-> -300, dst |-> -240]
Berlin == [name |-> "Europe/Berlin", lmt |-> 3208, std |-> 60, dst |-> 120]

TimeZones == {UTC, NewYork, Berlin}

\* the time value ms milliseconds (less than two days) after t
PlusMs(t, ms) ==
    [d |-> t.d + (t.ms + ms) \div MsPerDay, ms |-> (t.ms + ms) % MsPerDay]

\* the UTC time value of wall-clock hour h, at an offset of off minutes, on
\* day number z
AtHour(z, h, off) == PlusMinutes([d |-> z, ms |-> 0], h * 60 - off)

\* the first time value of the zone's standard time: 1883-11-18 at noon in
\* New York, 1893-04-01 at midnight in Berlin
StandardSince(zone) ==
    IF zone.name = NewYork.name THEN AtHour(DaysFromCivil(1883, 11, 18), 12, NewYork.std)
    ELSE PlusMs([d |-> DaysFromCivil(1893, 4, 1), ms |-> 0], -(Berlin.lmt * 1000))

NoSpan == [from |-> InvalidDate, to |-> InvalidDate]

\* 02:00 wall-clock time at both ends
NewYorkDays(a, b) == [from |-> AtHour(a, 2, NewYork.std), to |-> AtHour(b, 2, NewYork.dst)]

\* America/New_York; the span of 1942 to 1945 is war time, kept through the
\* winters
NewYorkSpan(y) ==
    IF y >= 2007 THEN NewYorkDays(NthSunday(y, 3, 2), NthSunday(y, 11, 1))
    ELSE IF y >= 1987 THEN NewYorkDays(NthSunday(y, 4, 1), LastSunday(y, 10))
    ELSE IF y >= 1976 THEN NewYorkDays(LastSunday(y, 4), LastSunday(y, 10))
    ELSE IF y = 1975 THEN NewYorkDays(DaysFromCivil(1975, 2, 23), LastSunday(y, 10))
    ELSE IF y = 1974 THEN NewYorkDays(DaysFromCivil(1974, 1, 6), LastSunday(y, 10))
    ELSE IF y >= 1955 THEN NewYorkDays(LastSunday(y, 4), LastSunday(y, 10))
    ELSE IF y >= 1946 THEN NewYorkDays(LastSunday(y, 4), LastSunday(y, 9))
    ELSE IF y >= 1942 THEN NewYorkDays(DaysFromCivil(1942, 2, 9), DaysFromCivil(1945, 9, 30))
    ELSE IF y >= 1921 THEN NewYorkDays(LastSunday(y, 4), LastSunday(y, 9))
    ELSE IF y >= 1918 THEN NewYorkDays(LastSunday(y, 3), LastSunday(y, 10))
    ELSE NoSpan

\* hour a of day number from to hour b of day number to, both UTC
BerlinDays(from, a, to, b) == [from |-> AtHour(from, a, 0), to |-> AtHour(to, b, 0)]

\* the second Monday after the 1st of month m of year y, the first Monday
\* from its 15th on
MondayFrom15th(y, m) == SundayFrom(DaysFromCivil(y, m, 14)) + 1

\* Europe/Berlin; summer time was kept from April 1940 to November 1942
BerlinSpan(y) ==
    IF y >= 1996 THEN BerlinDays(LastSunday(y, 3), 1, LastSunday(y, 10), 1)
    ELSE IF y >= 1981 THEN BerlinDays(LastSunday(y, 3), 1, LastSunday(y, 9), 1)
    ELSE IF y = 1980 THEN BerlinDays(DaysFromCivil(1980, 4, 6), 1, LastSunday(y, 9), 1)
    ELSE IF y = 1949 THEN BerlinDays(DaysFromCivil(1949, 4, 10), 1, DaysFromCivil(1949, 10, 2), 1)
    ELSE IF y = 1948 THEN BerlinDays(DaysFromCivil(1948, 4, 18), 1, DaysFromCivil(1948, 10, 3), 1)
    ELSE IF y = 1947 THEN BerlinDays(DaysFromCivil(1947, 4, 6), 2, DaysFromCivil(1947, 10, 5), 1)
    ELSE IF y = 1946 THEN BerlinDays(DaysFromCivil(1946, 4, 14), 1, DaysFromCivil(1946, 10, 7), 1)
    ELSE IF y = 1945 THEN BerlinDays(DaysFromCivil(1945, 4, 2), 1, DaysFromCivil(1945, 11, 18), 1)
    ELSE IF y = 1944 THEN BerlinDays(DaysFromCivil(1944, 4, 3), 1, DaysFromCivil(1944, 10, 2), 1)
    ELSE IF y = 1943 THEN BerlinDays(DaysFromCivil(1943, 3, 29), 1, DaysFromCivil(1943, 10, 4), 1)
    ELSE IF y >= 1940 /\ y <= 1942 THEN BerlinDays(DaysFromCivil(1940, 4, 1), 1, DaysFromCivil(1942, 11, 2), 1)
    ELSE IF y = 1917 \/ y = 1918 THEN BerlinDays(MondayFrom15th(y, 4), 1, MondayFrom15th(y, 9), 1)
    ELSE IF y = 1916 THEN BerlinDays(DaysFromCivil(1916, 4, 30), 22, DaysFromCivil(1916, 9, 30), 23)
    ELSE NoSpan

\* Europe/Berlin: the spans of double summer time of 1945 and 1947
BerlinDoubleSpan(y) ==
    IF y = 1947 THEN BerlinDays(DaysFromCivil(1947, 5, 11), 1, DaysFromCivil(1947, 6, 29), 0)
    ELSE IF y = 1945 THEN BerlinDays(DaysFromCivil(1945, 5, 24), 0, DaysFromCivil(1945, 9, 24), 0)
    ELSE NoSpan

\* the span of summer time of year y in a zone: of the year's time values,
\* those from .from up to .to are in summer time
DstSpan(zone, y) ==
    IF zone.name = NewYork.name THEN NewYorkSpan(y)
    ELSE IF zone.name = Berlin.name THEN BerlinSpan(y)
    ELSE NoSpan

\* the span of double summer time of year y in a zone
DoubleSpan(zone, y) == IF zone.name = Berlin.name THEN BerlinDoubleSpan(y) ELSE NoSpan

\* t is in the span
InSpan(span, t) == IsValidDate(span.from) /\ ~DateLess(t, span.from) /\ DateLess(t, span.to)

\* the offset in minutes at t, a time value of the UTC year y of the zone's
\* standard time
RuleOffset(zone, t, y) ==
    IF InSpan(DoubleSpan(zone, y), t) THEN zone.dst + 60
    ELSE IF InSpan(DstSpan(zone, y), t) THEN zone.dst
    ELSE zone.std

\* local time = UTC + LocalTZA, in milliseconds, at the time value t
LocalTZA(zone, t) ==
    IF zone.name = UTC.name THEN 0
    ELSE IF DateLess(t, StandardSince(zone)) THEN zone.lmt * 1000
    ELSE RuleOffset(zone, t, CivilFromDays(t.d).y) * MsPerMinute

\* the whole minutes of ms milliseconds, the fraction cut off
WholeMinutes(ms) == IF ms < 0 THEN -((-ms) \div MsPerMinute) ELSE ms \div MsPerMinute

\* the offset of local time from UTC at t in minutes, as getTimezoneOffset()
\* reports it (with the opposite sign): the seconds of local mean time are cut
\* off
Offset(zone, t) == WholeMinutes(LocalTZA(zone, t))

\* LocalTime(t): the wall-clock reading at t, as a time value; it is what
\* the local fields of a Date are taken from, exact to the second
LocalTime(t, zone) == PlusMs(t, LocalTZA(zone, t))

\* the time value of a wall-clock reading near a clock change from the
\* offset before ms to the offset after ms: the change takes effect with
\* the readings that both offsets place after it
UtcAcrossChange(local, zone, before, after) ==
    IF LocalTZA(zone, PlusMs(local, -Larger(before, after))) = after
    THEN PlusMs(local, -after)
    ELSE PlusMs(local, -before)

\* UTC(local): the time value of a wall-clock reading; a reading that the
\* clock shows twice or skips is taken with the offset in effect before the
\* change
UtcOfLocal(local, zone) ==
    UtcAcrossChange(local, zone, LocalTZA(zone, PlusMs(local, -MsPerDay)),
                    LocalTZA(zone, PlusMs(local, MsPerDay)))

\* TimeClip: a time value is at most 100,000,000 days from the epoch
TimeClip(t) ==
    LET MaxDays == 100000000
    IN  IF t.d > MaxDays \/ t.d < -MaxDays \/ (t.d = MaxDays /\ t.ms > 0) THEN InvalidDate ELSE t

\* current.getFullYear() and current.getMonth() + 1, in local time
GetFullYear(t, zone) == CivilFromDays(LocalTime(t, zone).d).y
GetMonth1(t, zone) == CivilFromDays(LocalTime(t, zone).d).m

-----------------------------------------------------------------------------
(* Date helpers: new Date(string), as the engine parses it *)

AsciiUpper ==
    <<"A", "B", "C", "D", "E", "F", "G", "H", "I", "J", "K", "L", "M",
      "N", "O", "P", "Q", "R", "S", "T", "U", "V", "W", "X", "Y", "Z">>
AsciiLower ==
    <<"a", "b", "c", "d", "e", "f", "g", "h", "i", "j", "k", "l", "m",
      "n", "o", "p", "q", "r", "s", "t", "u", "v", "w", "x", "y", "z">>

\* the lower-case form of an ASCII letter, any other character as it is
ToLower(c) ==
    IF \E k \in 1..26 : AsciiUpper[k] = c
    THEN AsciiLower[CHOOSE k \in 1..26 : AsciiUpper[k] = c]
    ELSE c

\* the characters below "A" that are no digits and no white space: the
\* control characters U+0001..U+001F, and the punctuation of ASCII
ControlChars ==
    {"", "", "", "", "", "", "", "", "", "", "", "", "", "", "", "", "", "", "", "", "", "", "", "", "", ""}

LowChars ==
    ControlChars \cup
    {" ", "!", "\"", "#", "$", "%", "&", "'", "(", ")", "*", "+", ",", "-",
     ".", "/", ":", ";", "<", "=", ">", "?", "@"}

\* a character of a word: "A" or above and no white space
IsWordChar(c) == c \notin LowChars /\ ~IsDigit(c) /\ ~IsSpace(c)

\* the symbols that are tokens of their own
DateSymbols == {":", "-", "+", ".", ")"}

\* the keywords, by their first three characters in lower case: the kind
\* and the value of each
MonthNames ==
    <<<<"j", "a", "n">>, <<"f", "e", "b">>, <<"m", "a", "r">>, <<"a", "p", "r">>,
      <<"m", "a", "y">>, <<"j", "u", "n">>, <<"j", "u", "l">>, <<"a", "u", "g">>,
      <<"s", "e", "p">>, <<"o", "c", "t">>, <<"n", "o", "v">>, <<"d", "e", "c">>>>

\* the other keywords: am and pm with the hours they add, the zone names
\* with their offsets in hours, and the time separator
ShortKeywords ==
    <<[w |-> <<"a", "m">>, kind |-> "AM_PM", value |-> 0],
      [w |-> <<"p", "m">>, kind |-> "AM_PM", value |-> 12],
      [w |-> <<"u", "t">>, kind |-> "TIME_ZONE_NAME", value |-> 0],
      [w |-> <<"u", "t", "c">>, kind |-> "TIME_ZONE_NAME", value |-> 0],
      [w |-> <<"z">>, kind |-> "TIME_ZONE_NAME", value |-> 0],
      [w |-> <<"g", "m", "t">>, kind |-> "TIME_ZONE_NAME", value |-> 0],
      [w |-> <<"c", "d", "t">>, kind |-> "TIME_ZONE_NAME", value |-> -5],
      [w |-> <<"c", "s", "t">>, kind |-> "TIME_ZONE_NAME", value |-> -6],
      [w |-> <<"e", "d", "t">>, kind |-> "TIME_ZONE_NAME", value |-> -4],
      [w |-> <<"e", "s", "t">>, kind |-> "TIME_ZONE_NAME", value |-> -5],
      [w |-> <<"m", "d", "t">>, kind |-> "TIME_ZONE_NAME", value |-> -6],
      [w |-> <<"m", "s", "t">>, kind |-> "TIME_ZONE_NAME", value |-> -7],
      [w |-> <<"p", "d", "t">>, kind |-> "TIME_ZONE_NAME", value |-> -7],
      [w |-> <<"p", "s", "t">>, kind |-> "TIME_ZONE_NAME", value |-> -8],
      [w |-> <<"t">>, kind |-> "TIME_SEPARATOR", value |-> 0]>>

ShortKeywordToken(kw, len) == [type |-> kw.kind, n |-> kw.value, len |-> len]

\* months and shorts are the keywords that match a word of len characters
KeywordAmong(months, shorts, len) ==
    IF months # {}
    THEN [type |-> "MONTH_NAME", n |-> CHOOSE k \in months : TRUE, len |-> len]
    ELSE IF shorts # {}
    THEN ShortKeywordToken(ShortKeywords[CHOOSE j \in shorts : TRUE], len)
    ELSE [type |-> "INVALID", n |-> 0, len |-> len]

\* pre is the first three characters of the word, in lower case
KeywordOfPrefix(pre, len) ==
    KeywordAmong({k \in 1..12 : MonthNames[k] = pre},
                 {k \in 1..Len(ShortKeywords) : ShortKeywords[k].w = pre /\ len <= 3},
                 len)

\* the token of a word: a month name matches on its first three characters
\* whatever follows them, another keyword only as the whole word
KeywordToken(word) ==
    KeywordOfPrefix([k \in 1..(IF Len(word) < 3 THEN Len(word) ELSE 3) |-> ToLower(word[k])],
                    Len(word))

\* most digits of a numeral that count; the digits after them are read and
\* dropped
MaxSignificantDigits == 9

\* the token of a run of digits: its value without the leading zeros, and
\* its length with them
NumberToken(digits) ==
    LET zeros == RunLen(digits, 1, {j \in 1..Len(digits) : digits[j] # "0"})
        rest == SubSeq(digits, zeros + 1, Len(digits))
        kept == SubSeq(rest, 1, IF Len(rest) < MaxSignificantDigits THEN Len(rest)
                                ELSE MaxSignificantDigits)
    IN  [type |-> "number", n |-> StrToNat(kept, 0), len |-> Len(digits)]

\* number of characters from pos on that a parenthesis at pos takes with it:
\* up to the parenthesis that closes it, or the rest of the string
ParenLen(s, pos) ==
    LET Balance(j) == Cardinality({k \in pos..j : s[k] = "("})
                          - Cardinality({k \in pos..j : s[k] = ")"})
        closes == {j \in pos..Len(s) : Balance(j) <= 0}
    IN  IF closes = {} THEN Len(s) - pos + 1
        ELSE (CHOOSE j \in closes : \A k \in closes : j <= k) - pos + 1

EndOfInput == [type |-> "end", n |-> 0, len |-> 0]

RECURSIVE DateTokens(_, _)
\* the tokens of s from pos on
DateTokens(s, pos) ==
    IF pos > Len(s) THEN <<>>
    ELSE LET c == s[pos]
         IN  IF IsDigit(c)
             THEN LET n == RunLen(s, pos, NonDigits(s))
                  IN  <<NumberToken(SubSeq(s, pos, pos + n - 1))>> \o DateTokens(s, pos + n)
             ELSE IF c \in DateSymbols
             THEN <<[type |-> c, n |-> 0, len |-> 1]>> \o DateTokens(s, pos + 1)
             ELSE IF IsWordChar(c)
             THEN LET n == RunLen(s, pos, {j \in 1..Len(s) : ~IsWordChar(s[j])})
                  IN  <<KeywordToken(SubSeq(s, pos, pos + n - 1))>> \o DateTokens(s, pos + n)
             ELSE IF IsSpace(c)
             THEN LET n == RunLen(s, pos, NonSpaces(s))
                  IN  <<[type |-> "space", n |-> 0, len |-> n]>> \o DateTokens(s, pos + n)
             ELSE IF c = "("
             THEN <<[type |-> "unknown", n |-> 0, len |-> ParenLen(s, pos)]>>
                      \o DateTokens(s, pos + ParenLen(s, pos))
             ELSE <<[type |-> "unknown", n |-> 0, len |-> 1]>> \o DateTokens(s, pos + 1)

\* the i-th token, the end of input after the last
Tok(toks, i) == IF i <= Len(toks) THEN toks[i] ELSE EndOfInput

IsSign(t) == t.type \in {"+", "-"}
IsFixedNumber(t, k) == t.type = "number" /\ t.len = k
IsKeywordZ(t) == t.type = "TIME_ZONE_NAME" /\ t.len = 1

IsMonth(x) == x \in 1..12
IsDay(x) == x \in 1..31
IsHour(x) == x \in 0..23
IsHour12(x) == x \in 0..12
IsMinute(x) == x \in 0..59
IsSecond(x) == x \in 0..59
IsMillisecond(x) == x \in 0..999

\* the value "not set" of a zone or an am/pm field
None == -1

\* the composers before any token is read; pos is the token to read next
EmptyParse ==
    [ok |-> TRUE, pos |-> 1,
     day |-> <<>>, namedMonth |-> None, isoDate |-> FALSE,
     time |-> <<>>, hourOffset |-> None,
     tzSign |-> 0, tzHour |-> None, tzMinute |-> None,
     hasReadNumber |-> FALSE]

Failed(st) == [st EXCEPT !.ok = FALSE]

\* time.AddFinal: the time fields not given are 0
WithZeros(time) == time \o [k \in 1..(4 - Len(time)) |-> 0]

\* time.IsExpecting(n)
TimeIsExpecting(st, n) ==
    \/ Len(st.time) = 1 /\ IsMinute(n)
    \/ Len(st.time) = 2 /\ IsSecond(n)
    \/ Len(st.time) = 3 /\ IsMillisecond(n)

\* tz.IsExpecting(n)
TzIsExpecting(st, n) == st.tzHour # None /\ st.tzMinute = None /\ IsMinute(n)

\* the fraction of a second of a token after the decimal point, in
\* milliseconds: its first three digits
ReadMilliseconds(t) ==
    IF t.len = 1 THEN t.n * 100
    ELSE IF t.len = 2 THEN t.n * 10
    ELSE IF t.len > 3
    THEN LET len == IF t.len > MaxSignificantDigits THEN MaxSignificantDigits ELSE t.len
         IN  t.n \div 10^(len - 3)
    ELSE t.n

\* The parts of an ES5 date-time string.  Each reads the tokens from st.pos
\* on and leaves st.pos after them; a part that fails clears st.ok, and the
\* parts after it leave the composers as they are.

\* HH:mm
Es5HoursMinutes(toks, st) ==
    LET p == st.pos
        hh == Tok(toks, p)
        mm == Tok(toks, p + 2)
        hourOk == IsFixedNumber(hh, 2) /\ hh.n \in 0..24
        minuteOk == /\ Tok(toks, p + 1).type = ":"
                    /\ IsFixedNumber(mm, 2) /\ IsMinute(mm.n) /\ ~(hh.n = 24 /\ mm.n > 0)
    IN  IF ~(hourOk /\ minuteOk) THEN Failed(st)
        ELSE [st EXCEPT !.time = <<hh.n, mm.n>>, !.pos = p + 3]

\* [:ss[.sss]]; with hour 24 every later field is 0
Es5Seconds(toks, st) ==
    LET p == st.pos
        is24 == st.time[1] = 24
        ss == Tok(toks, p + 1)
        frac == Tok(toks, p + 3)
    IN  IF ~st.ok \/ Tok(toks, p).type # ":" THEN st
        ELSE IF ~(IsFixedNumber(ss, 2) /\ IsSecond(ss.n) /\ ~(is24 /\ ss.n > 0)) THEN Failed(st)
        ELSE IF Tok(toks, p + 2).type # "." THEN [st EXCEPT !.time = Append(@, ss.n), !.pos = p + 2]
        ELSE IF ~(frac.type = "number" /\ ~(is24 /\ frac.n > 0)) THEN Failed(st)
        ELSE [st EXCEPT !.time = @ \o <<ss.n, ReadMilliseconds(frac)>>, !.pos = p + 4]

\* Z or +HH:mm or +HHmm, up to the end
Es5Zone(toks, st) ==
    LET q == st.pos
        z == Tok(toks, q)
        a == Tok(toks, q + 1)
        b == Tok(toks, q + 3)
        sign == IF z.type = "+" THEN 1 ELSE -1
    IN  IF ~st.ok THEN st
        ELSE IF IsKeywordZ(z)
        THEN [st EXCEPT !.tzSign = 1, !.tzHour = 0, !.tzMinute = 0, !.pos = q + 1,
                        !.ok = Tok(toks, q + 1).type = "end"]
        ELSE IF IsSign(z)
        THEN IF IsFixedNumber(a, 4)
             THEN [st EXCEPT !.tzSign = sign, !.tzHour = a.n \div 100,
                             !.tzMinute = a.n % 100, !.pos = q + 2,
                             !.ok = /\ IsHour(a.n \div 100) /\ IsMinute(a.n % 100)
                                    /\ Tok(toks, q + 2).type = "end"]
             ELSE [st EXCEPT !.tzSign = sign, !.tzHour = a.n, !.tzMinute = b.n,
                             !.pos = q + 4,
                             !.ok = /\ IsFixedNumber(a, 2) /\ IsHour(a.n)
                                    /\ Tok(toks, q + 2).type = ":"
                                    /\ IsFixedNumber(b, 2) /\ IsMinute(b.n)
                                    /\ Tok(toks, q + 4).type = "end"]
        ELSE [st EXCEPT !.ok = z.type = "end"]

\* the time part of an ES5 date-time string, st.pos at the token after the
\* "T": HH:mm[:ss[.sss]] and then Z or +HH:mm or +HHmm, up to the end
Es5Time(toks, st) == Es5Zone(toks, Es5Seconds(toks, Es5HoursMinutes(toks, st)))

\* the string is an ES5 date-time string when its time part was read
MarkIsoDate(r) == [r EXCEPT !.isoDate = r.ok]

\* after the date: the time part, the end, or the legacy parser
Es5AfterDate(toks, st) ==
    IF Tok(toks, st.pos).type = "TIME_SEPARATOR"
    THEN MarkIsoDate(Es5Time(toks, [st EXCEPT !.pos = @ + 1]))
    ELSE IF Tok(toks, st.pos).type = "end"
    THEN [st EXCEPT !.isoDate = TRUE, !.tzSign = 1, !.tzHour = 0, !.tzMinute = 0]
    ELSE st

RECURSIVE Es5MonthDay(_, _)
\* -MM and -DD after the year st.day holds: a field that is not two digits
\* in range is left, with what follows it, to the legacy parser
Es5MonthDay(toks, st) ==
    LET p == st.pos
        field == Tok(toks, p + 1)
        inRange == IF Len(st.day) = 1 THEN IsMonth(field.n) ELSE IsDay(field.n)
    IN  IF Len(st.day) = 3 \/ Tok(toks, p).type # "-" THEN Es5AfterDate(toks, st)
        ELSE IF ~(IsFixedNumber(field, 2) /\ inRange) THEN [st EXCEPT !.pos = p + 1]
        ELSE Es5MonthDay(toks, [st EXCEPT !.day = Append(@, field.n), !.pos = p + 2])

\* ParseES5DateTime: the composers after the longest beginning of the tokens
\* that is an ES5 date-time string; st.pos is the first token left to the
\* legacy parser, or past the end when the whole string was ES5.  A year
\* -000000 is no ES5 year: the sign is handed to the legacy parser, which
\* passes over a sign before any number, with the six digits already taken.
Es5DateTime(toks) ==
    LET t1 == Tok(toks, 1)
        signedYear == IsSign(t1) /\ IsFixedNumber(Tok(toks, 2), 6)
        plainYear == IsFixedNumber(t1, 4)
        year == IF signedYear
                THEN (IF t1.type = "-" THEN -1 ELSE 1) * Tok(toks, 2).n
                ELSE t1.n
    IN  IF ~signedYear /\ ~plainYear THEN EmptyParse
        ELSE IF signedYear /\ t1.type = "-" /\ year = 0 THEN [EmptyParse EXCEPT !.pos = 3]
        ELSE Es5MonthDay(toks, [EmptyParse EXCEPT !.day = <<year>>,
                                                  !.pos = IF signedYear THEN 3 ELSE 2])

\* one turn of the loop, on the token at p = st.pos with the two tokens
\* after it, peek and peek2
LegacyToken(toks, st, p, token, peek, peek2) ==
    LET n == token.n
    IN  IF token.type = "number"
        THEN LET s1 == [st EXCEPT !.hasReadNumber = TRUE]
             IN  IF peek.type = ":"
                 THEN IF peek2.type = ":"
                      THEN \* n::
                           IF s1.time # <<>> THEN Failed(s1)
                           ELSE [s1 EXCEPT !.time = <<n, 0>>, !.pos = p + 3]
                      ELSE \* n:
                           IF Len(s1.time) >= 4 THEN Failed(s1)
                           ELSE [s1 EXCEPT !.time = Append(@, n),
                                           !.pos = IF peek2.type = "." THEN p + 3 ELSE p + 2]
                 ELSE LET dot == peek.type = "."
                          q == IF dot THEN p + 2 ELSE p + 1
                      IN  IF dot /\ TimeIsExpecting(s1, n)
                          THEN IF Tok(toks, q).type # "number" THEN Failed(s1)
                               ELSE [s1 EXCEPT !.time =
                                                   IF Len(@) < 3
                                                   THEN WithZeros(Append(Append(@, n),
                                                            ReadMilliseconds(Tok(toks, q))))
                                                   ELSE Append(@, n),
                                               !.pos = q + 1]
                          ELSE IF TzIsExpecting(s1, n)
                          THEN [s1 EXCEPT !.tzMinute = n, !.pos = q]
                          ELSE IF TimeIsExpecting(s1, n)
                          THEN LET after == Tok(toks, q)
                               IN  IF after.type \in {"end", "space"} \/ IsKeywordZ(after)
                                          \/ IsSign(after)
                                   THEN [s1 EXCEPT !.time = WithZeros(Append(@, n)), !.pos = q]
                                   ELSE Failed(s1)
                          ELSE IF Len(s1.day) >= 3 THEN Failed(s1)
                          ELSE [s1 EXCEPT !.day = Append(@, n),
                                          !.pos = IF Tok(toks, q).type = "-" THEN q + 1 ELSE q]
        ELSE IF token.type \in {"MONTH_NAME", "AM_PM", "TIME_ZONE_NAME", "TIME_SEPARATOR", "INVALID"}
        THEN IF token.type = "AM_PM" /\ st.time # <<>>
             THEN [st EXCEPT !.hourOffset = n, !.pos = p + 1]
             ELSE IF token.type = "MONTH_NAME"
             THEN [st EXCEPT !.namedMonth = n,
                             !.pos = IF peek.type = "-" THEN p + 2 ELSE p + 1]
             ELSE IF token.type = "TIME_ZONE_NAME" /\ st.hasReadNumber
             THEN [st EXCEPT !.tzSign = IF n < 0 THEN -1 ELSE 1,
                             !.tzHour = IF n < 0 THEN -n ELSE n, !.tzMinute = 0,
                             !.pos = p + 1]
             ELSE \* a word that says nothing: not after a number, and not
                  \* right before one
                  IF st.hasReadNumber \/ peek.type = "number" THEN Failed(st)
                  ELSE [st EXCEPT !.pos = p + 1]
        ELSE IF IsSign(token) /\ ((st.tzHour = 0 /\ st.tzMinute = 0) \/ st.time # <<>>)
        THEN \* a UTC offset, after UTC or after a time
             LET hasNum == peek.type = "number"
                 len == IF hasNum THEN peek.len ELSE 0
                 v == IF hasNum THEN peek.n ELSE 0
                 q == IF hasNum THEN p + 2 ELSE p + 1
                 s1 == [st EXCEPT !.tzSign = IF token.type = "+" THEN 1 ELSE -1,
                                  !.hasReadNumber = TRUE, !.pos = q]
             IN  IF Tok(toks, q).type = ":"
                 THEN [s1 EXCEPT !.tzHour = v, !.tzMinute = None]
                 ELSE IF len \in {1, 2}
                 THEN [s1 EXCEPT !.tzHour = v, !.tzMinute = 0]
                 ELSE IF len \in {3, 4}
                 THEN [s1 EXCEPT !.tzHour = v \div 100, !.tzMinute = v % 100]
                 ELSE Failed(s1)
        ELSE IF (IsSign(token) \/ token.type = ")") /\ st.hasReadNumber
        THEN Failed(st)
        ELSE [st EXCEPT !.pos = p + 1]

\* one turn of the loop of the legacy parser, on the token at st.pos
LegacyStep(toks, st) ==
    LegacyToken(toks, st, st.pos, Tok(toks, st.pos), Tok(toks, st.pos + 1), Tok(toks, st.pos + 2))

RECURSIVE LegacyLoop(_, _)
\* the loop of the legacy parser over the tokens from st.pos on
LegacyLoop(toks, st) ==
    IF ~st.ok \/ st.pos > Len(toks) THEN st
    ELSE LegacyLoop(toks, LegacyStep(toks, st))

\* year0 is the year as it was read
DayFields(st, year0, month, day) ==
    [ok |-> st.day # <<>> /\ IsMonth(month) /\ IsDay(day),
     year |-> IF st.isoDate THEN year0
              ELSE IF year0 \in 0..49 THEN year0 + 2000
              ELSE IF year0 \in 50..99 THEN year0 + 1900
              ELSE year0,
     month |-> month, day |-> day]

\* comp are the three numbers
DayOfNumbers(st, comp) ==
    LET named == st.namedMonth # None
        ymd == st.isoDate \/ ~IsDay(comp[1])
    IN  DayFields(st,
            IF named THEN (IF ~IsDay(comp[1]) THEN comp[1] ELSE comp[2])
            ELSE (IF ymd THEN comp[1] ELSE comp[3]),
            IF named THEN st.namedMonth
            ELSE (IF ymd THEN comp[2] ELSE comp[1]),
            IF named THEN (IF ~IsDay(comp[1]) THEN comp[2] ELSE comp[1])
            ELSE (IF ymd THEN comp[3] ELSE comp[2]))

\* day.Write: year, month and day of the numbers read, the numbers not
\* given taken as 1.  Without a month name the numbers are year-month-day
\* when the first is no day of a month (or the string was an ES5 date), else
\* month-day-year; with a month name they are year-day when the first is no
\* day of a month, else day-year.  Outside an ES5 date a year below 50 is of
\* this century and one below 100 of the last.
DayOf(st) == DayOfNumbers(st, st.day \o [k \in 1..(3 - Len(st.day)) |-> 1])

\* comp are hour, minute, second and millisecond as read, hour the hour of
\* the day
TimeFields(st, comp, hour) ==
    LET inRange == /\ IsHour(hour) /\ IsMinute(comp[2])
                   /\ IsSecond(comp[3]) /\ IsMillisecond(comp[4])
        midnight == hour = 24 /\ comp[2] = 0 /\ comp[3] = 0 /\ comp[4] = 0
    IN  [ok |-> /\ (st.hourOffset = None \/ IsHour12(comp[1]))
                /\ (inRange \/ midnight),
         ms |-> IF inRange \/ midnight
                THEN hour * MsPerHour + comp[2] * MsPerMinute + comp[3] * 1000 + comp[4]
                ELSE 0]

TimeOfNumbers(st, comp) ==
    TimeFields(st, comp,
        IF st.hourOffset = None THEN comp[1] ELSE (comp[1] % 12) + st.hourOffset)

\* time.Write: the milliseconds into the day; 12 am is 0 h, 12 pm is 12 h,
\* and 24:00:00.000 is allowed
TimeOf(st) == TimeOfNumbers(st, WithZeros(st.time))

\* the time value of the wall-clock reading local: in the zone of the host,
\* or at the UTC offset the string gave
DateOfLocal(st, local, zone) ==
    TimeClip(IF st.tzSign = 0 THEN UtcOfLocal(local, zone)
             ELSE PlusMinutes(local,
                      -st.tzSign * ((IF st.tzHour = None THEN 0 ELSE st.tzHour) * 60
                          + (IF st.tzMinute = None THEN 0 ELSE st.tzMinute))))

\* day and time are the date and the time of day the composers wrote
DateOfFields(st, day, time, zone) ==
    LET \* beyond these years no time value exists
        MaxYear == 400000
    IN  IF ~st.ok \/ ~day.ok \/ ~time.ok THEN InvalidDate
        ELSE IF day.year > MaxYear \/ day.year < -MaxYear THEN InvalidDate
        ELSE DateOfLocal(st,
                 [d |-> MakeDay(day.year, day.month, day.day) + time.ms \div MsPerDay,
                  ms |-> time.ms % MsPerDay],
                 zone)

DateOfComposers(st, zone) == DateOfFields(st, DayOf(st), TimeOf(st), zone)

\* es5 are the composers after the ES5 part of the tokens
DateOfEs5(toks, es5, zone) ==
    DateOfComposers(LegacyLoop(toks, [es5 EXCEPT !.hasReadNumber = es5.day # <<>>]), zone)

DateOfTokens(toks, zone) == DateOfEs5(toks, Es5DateTime(toks), zone)

\* new Date(s) on a host in the given zone: the time value, or Invalid Date
ParseDate(s, zone) == DateOfTokens(DateTokens(s, 1), zone)

-----------------------------------------------------------------------------
(* Date helpers: getMonthList *)

\* String(n) of an integer
IntToStr(n) == IF n < 0 THEN <<"-">> \o NatToStr(-n) ELSE NatToStr(n)

\* `${y}-${m}` with m = String(getMonth() + 1).padStart(2, '0')
FormatMonth(t, zone) ==
    IntToStr(GetFullYear(t, zone)) \o <<"-">> \o PadStart2(NatToStr(GetMonth1(t, zone)))

\* c is the local date and msInDay the local time of day
SetCivilMonthPlus1(c, msInDay, zone) ==
    TimeClip(UtcOfLocal([d |-> MakeDay(c.y, c.m + 1, c.d), ms |-> msInDay], zone))

SetLocalMonthPlus1(local, zone) == SetCivilMonthPlus1(CivilFromDays(local.d), local.ms, zone)

\* current.setMonth(current.getMonth() + 1): the local day of the month and
\* time of day are kept and the month advances (a day the new month does not
\* have runs over into the month after it); the result is that wall-clock
\* reading as a time value
SetMonthPlus1(t, zone) == SetLocalMonthPlus1(LocalTime(t, zone), zone)

RECURSIVE MonthLoop(_, _, _)
\* the while loop of getMonthList
MonthLoop(current, end, zone) ==
    IF DateLeq(current, end)
    THEN <<FormatMonth(current, zone)>> \o MonthLoop(SetMonthPlus1(current, zone), end, zone)
    ELSE <<>>

Day02 == <<"-", "0", "2">>

\* start and end of getMonthList: new Date of each string with -02
MonthListDates(strs, zone) == [i \in 1..2 |-> ParseDate(strs[i] \o Day02, zone)]

MonthsBetween(dates, zone) == MonthLoop(dates[1], dates[2], zone)

getMonthList(startStr, endStr, zone) ==
    IF startStr = <<>> \/ endStr = <<>> THEN <<>>
    ELSE MonthsBetween(MonthListDates(<<startStr, endStr>>, zone), zone)

-----------------------------------------------------------------------------
(* Inputs of the calendar check *)

\* the token `YYYY-MM` of month mi
MonthToken(mi) == NatToStr(mi \div 12) \o <<"-">> \o PadStart2(NatToStr((mi % 12) + 1))

FirstMonth == BaseYear * 12 + 8
MonthIdxs == FirstMonth..(FirstMonth + MonthSpan - 1)

\* a token whose month is out of range: new Date() gives an Invalid Date
BadToken == NatToStr(BaseYear) \o <<"-", "1", "3">>

TokenInputs == {MonthToken(mi) : mi \in MonthIdxs} \cup {<<>>, BadToken}

-----------------------------------------------------------------------------
(* Calculation helpers *)

\* the cost constants of the types file
USD_TO_CAD == Decimal(132, -2)
DAYS_PER_MONTH == 21
HOURS_ONSITE == 8
HOURS_OFFSHORE == 9

\* Location.Onsite and Location.Offshore
Onsite == <<"O", "n", "s", "i", "t", "e">>
Offshore == <<"O", "f", "f", "s", "h", "o", "r", "e">>

\* calculateMonthlyResourceCostUSD with the onsite hours for every location
calculateMonthlyResourceCostUSDOnsiteHours(resource, allocationPercentage) ==
    LET totalMonthlyHours == DAYS_PER_MONTH * HOURS_ONSITE
        rateUSD == Div(resource.rateCAD, USD_TO_CAD)
    IN  Mul(Mul(rateUSD, Num(totalMonthlyHours)), allocationPercentage)

\* the monthly cost in USD of a resource at an allocation fraction:
\* rateCAD / 1.32 * (21 * dailyHours) * allocationPercentage
calculateMonthlyResourceCostUSD(resource, allocationPercentage) ==
    LET dailyHours == IF resource.location = Onsite THEN HOURS_ONSITE ELSE HOURS_OFFSHORE
        totalMonthlyHours == DAYS_PER_MONTH * dailyHours
        rateUSD == Div(resource.rateCAD, USD_TO_CAD)
    IN  Mul(Mul(rateUSD, Num(totalMonthlyHours)), allocationPercentage)

\* months.includes(m)
Includes(months, m) == \E i \in 1..Len(months) : months[i] = m

\* Array.prototype.find / findIndex: the first of the indexes hits at which
\* the test holds, 0 when there is none
FindIndex(hits) ==
    IF hits # {} THEN CHOOSE i \in hits : \A j \in hits : i <= j ELSE 0

\* resources.find(r => r.id === id), as an index
FindResource(rs, id) == FindIndex({i \in 1..Len(rs) : rs[i].id = id})

\* releases.find(r => r.id === id), as an index
FindRelease(rels, id) == FindIndex({i \in 1..Len(rels) : rels[i].id = id})

RECURSIVE TotalLoop(_, _, _, _)
\* the forEach of calculateReleaseTotalCostUSD, total the sum so far
TotalLoop(relAllocations, months, rs, total) ==
    IF relAllocations = <<>> THEN total
    ELSE LET alloc == Head(relAllocations)
             ri == FindResource(rs, alloc.resourceId)
         IN  TotalLoop(Tail(relAllocations), months, rs,
                 IF Includes(months, alloc.monthStr) /\ ri # 0
                 THEN Add(total, calculateMonthlyResourceCostUSD(rs[ri], alloc.percentage))
                 ELSE total)

\* calculateReleaseTotalCostUSD without the filter on releaseId: the
\* allocations of every release are summed
calculateReleaseTotalCostUSDAnyRelease(release, rs, allocs, zone) ==
    LET months == getMonthList(release.startMonth, release.endMonth, zone)
    IN  TotalLoop(allocs, months, rs, Zero)

calculateReleaseTotalCostUSD(release, rs, allocs, zone) ==
    LET months == getMonthList(release.startMonth, release.endMonth, zone)
        OfRelease(a) == a.releaseId = release.id
    IN  TotalLoop(SelectSeq(allocs, OfRelease), months, rs, Zero)

\* the set of elements of a sequence
Range(seq) == {seq[i] : i \in 1..Len(seq)}

RECURSIVE CostLoop(_, _, _, _)
\* the forEach of costData, acc = [total, byMonth, byResource] so far
CostLoop(relAllocations, months, rs, acc) ==
    IF relAllocations = <<>> THEN acc
    ELSE LET alloc == Head(relAllocations)
             ri == FindResource(rs, alloc.resourceId)
         IN  CostLoop(Tail(relAllocations), months, rs,
                 IF ri # 0 /\ Includes(months, alloc.monthStr)
                 THEN LET cost == calculateMonthlyResourceCostUSD(rs[ri], alloc.percentage)
                      IN  [total |-> Add(acc.total, cost),
                           byMonth |-> [acc.byMonth EXCEPT
                               ![alloc.monthStr] = Add(OrZero(@), cost)],
                           byResource |-> [acc.byResource EXCEPT
                               ![rs[ri].id] = Add(OrZero(@), cost)]]
                 ELSE acc)

\* costData without the month-range test: the month of every allocation of
\* the release is taken as a month of the release
costDataAnyMonth(activeRelease, rs, allocs, zone) ==
    LET OfRelease(a) == a.releaseId = activeRelease.id
        relAllocations == SelectSeq(allocs, OfRelease)
        months == getMonthList(activeRelease.startMonth, activeRelease.endMonth, zone)
                      \o [i \in 1..Len(relAllocations) |-> relAllocations[i].monthStr]
    IN  CostLoop(relAllocations, months, rs,
            [total |-> Zero,
             byMonth |-> [m \in Range(months) |-> Zero],
             byResource |-> [id \in {r.id : r \in Range(rs)} |-> Zero]])

\* costData for the active release (the caller handles "no active release")
costData(activeRelease, rs, allocs, zone) ==
    LET activeReleaseMonths ==
            getMonthList(activeRelease.startMonth, activeRelease.endMonth, zone)
        OfRelease(a) == a.releaseId = activeRelease.id
    IN  CostLoop(SelectSeq(allocs, OfRelease), activeReleaseMonths, rs,
            [total |-> Zero,
             byMonth |-> [m \in Range(activeReleaseMonths) |-> Zero],
             byResource |-> [id \in {r.id : r \in Range(rs)} |-> Zero]])

RECURSIVE SumFrom(_, _, _)
\* acc and the values of f at the keys, added one after the other
SumFrom(f, keys, acc) ==
    IF keys = <<>> THEN acc ELSE SumFrom(f, Tail(keys), Add(acc, f[Head(keys)]))

\* the sum of the values of f, added from 0 in the order of its keys, which
\* is the order the keys were set in
SumValues(f, keys) == SumFrom(f, keys, Zero)

-----------------------------------------------------------------------------
(* CSV helpers: generateCSV *)

RECURSIVE Join(_, _)
\* Array.prototype.join(sep) on strings
Join(parts, sep) ==
    IF parts = <<>> THEN <<>>
    ELSE IF Len(parts) = 1 THEN parts[1]
    ELSE parts[1] \o sep \o Join(Tail(parts), sep)

RECURSIVE Flatten(_)
\* the concatenation of a sequence of sequences
Flatten(seqs) == IF seqs = <<>> THEN <<>> ELSE Head(seqs) \o Flatten(Tail(seqs))

\* `"${s}"`
Quoted(s) == <<"\"">> \o s \o <<"\"">>

\* the header row of the export
CsvHeaders ==
    <<"R", "e", "l", "e", "a", "s", "e", " ", "N", "a", "m", "e", ",", "S",
      "t", "a", "r", "t", " ", "M", "o", "n", "t", "h", ",", "E", "n", "d",
      " ", "M", "o", "n", "t", "h", ",", "R", "e", "s", "o", "u", "r", "c",
      "e", " ", "N", "a", "m", "e", ",", "R", "o", "l", "e", ",", "L", "o",
      "c", "a", "t", "i", "o", "n", ",", "R", "a", "t", "e", " ", "(", "C",
      "A", "D", ")", ",", "M", "o", "n", "t", "h", ",", "A", "l", "l", "o",
      "c", "a", "t", "i", "o", "n", " ", "%", ",", "M", "o", "n", "t", "h",
      "l", "y", " ", "C", "o", "s", "t", " ", "(", "U", "S", "D", ")">>

RECURSIVE UniqueIds(_, _)
\* Array.from(new Set(ids)): the distinct ids in order of first occurrence
UniqueIds(ids, seen) ==
    IF ids = <<>> THEN <<>>
    ELSE IF Head(ids) \in seen THEN UniqueIds(Tail(ids), seen)
    ELSE <<Head(ids)>> \o UniqueIds(Tail(ids), seen \cup {Head(ids)})

\* one data row of the export: release rel, resource res, one month
CsvRow(rel, res, month, allocs) ==
    LET ai == FindIndex({i \in 1..Len(allocs) :
                  /\ allocs[i].releaseId = rel.id
                  /\ allocs[i].resourceId = res.id
                  /\ allocs[i].monthStr = month})
        pct == IF ai # 0 THEN allocs[ai].percentage ELSE Zero
        cost == calculateMonthlyResourceCostUSD(res, pct)
    IN  Join(<<Quoted(rel.name), rel.startMonth, rel.endMonth,
               Quoted(res.name), Quoted(res.role), res.location, NumToStr(res.rateCAD),
               month, NumToStr(pct), ToFixed2(cost)>>, <<",">>)

\* the rows of one release: its resources in order of first allocation, each
\* over the months of the release
CsvRowsOfRelease(rel, rs, allocs, zone) ==
    LET OfRelease(a) == a.releaseId = rel.id
        relAllocations == SelectSeq(allocs, OfRelease)
        months == getMonthList(rel.startMonth, rel.endMonth, zone)
        uniqueResIds == UniqueIds([i \in 1..Len(relAllocations) |-> relAllocations[i].resourceId], {})
        RowsOfResource(resId) ==
            LET ri == FindResource(rs, resId)
            IN  IF ri = 0 THEN <<>>
                ELSE [k \in 1..Len(months) |-> CsvRow(rel, rs[ri], months[k], allocs)]
    IN  Flatten([j \in 1..Len(uniqueResIds) |-> RowsOfResource(uniqueResIds[j])])

generateCSV(rels, rs, allocs, zone) ==
    LET rows == Flatten([i \in 1..Len(rels) |-> CsvRowsOfRelease(rels[i], rs, allocs, zone)])
    IN  Join(<<CsvHeaders>> \o rows, <<"\n">>)

-----------------------------------------------------------------------------
(* CSV helpers: parseCSV *)

\* String.prototype.trim
RECURSIVE TrimEnd(_)
TrimEnd(s) == IF s # <<>> /\ IsSpace(s[Len(s)]) THEN TrimEnd(SubSeq(s, 1, Len(s) - 1)) ELSE s

Trim(s) == LET n == RunLen(s, 1, NonSpaces(s)) IN TrimEnd(SubSeq(s, n + 1, Len(s)))

\* text.split('\n'): the pieces between consecutive line feeds
SplitLines(text) ==
    LET breaks == {0, Len(text) + 1} \cup {i \in 1..Len(text) : text[i] = "\n"}
        Kth(k) == CHOOSE b \in breaks : Cardinality({c \in breaks : c < b}) = k - 1
    IN  [k \in 1..(Cardinality(breaks) - 1) |-> SubSeq(text, Kth(k) + 1, Kth(k + 1) - 1)]

\* the lookahead (?=\s*,|\s*$) at position p of line
Lookahead(line, p) ==
    LET q == p + RunLen(line, p, NonSpaces(line))
    IN  q > Len(line) \/ line[q] = ","

\* [^",\s]
IsBare(c) == c # "\"" /\ c # "," /\ ~IsSpace(c)

\* . of the regular expression: any character but a line terminator
IsDot(c) == c \notin LineTerminators

\* index of the last character of the match of (".*?"|[^",\s]+)(?=\s*,|\s*$)
\* that starts at pos, 0 when there is none: the shortest quoted run, or the
\* longest bare run, after which the lookahead holds
MatchEnd(line, pos) ==
    IF line[pos] = "\""
    THEN LET ends == {j \in (pos + 1)..Len(line) :
                         /\ line[j] = "\""
                         /\ \A k \in (pos + 1)..(j - 1) : IsDot(line[k])
                         /\ Lookahead(line, j + 1)}
         IN  IF ends = {} THEN 0 ELSE CHOOSE j \in ends : \A k \in ends : j <= k
    ELSE IF IsBare(line[pos])
    THEN LET run == RunLen(line, pos, {j \in 1..Len(line) : ~IsBare(line[j])})
             ends == {j \in pos..(pos + run - 1) : Lookahead(line, j + 1)}
         IN  IF ends = {} THEN 0 ELSE CHOOSE j \in ends : \A k \in ends : j >= k
    ELSE 0

RECURSIVE MatchAll(_, _)
\* line.match(/.../g): the matches from pos on, left to right; the empty
\* sequence stands for null
MatchAll(line, pos) ==
    IF pos > Len(line) THEN <<>>
    ELSE LET e == MatchEnd(line, pos)
         IN  IF e = 0 THEN MatchAll(line, pos + 1)
             ELSE <<SubSeq(line, pos, e)>> \o MatchAll(line, e + 1)

\* clean(row[i]): '' for a missing field, else the field without one leading
\* and one trailing quote, trimmed
Clean(row, i) ==
    IF i > Len(row) THEN <<>>
    ELSE LET s == row[i]
             a == IF s # <<>> /\ s[1] = "\"" THEN Tail(s) ELSE s
             b == IF a # <<>> /\ a[Len(a)] = "\"" THEN SubSeq(a, 1, Len(a) - 1) ELSE a
         IN  Trim(b)

\* IndexOfName that never finds the name: no record is reused
IndexOfNameNever(recs, name) == 0

\* index of the record of recs with the given name, 0 when none
\* (releaseMap.get / resourceMap.get)
IndexOfName(recs, name) == FindIndex({i \in 1..Len(recs) : recs[i].name = name})

\* the fields parseCSV reads from one data line; ok is false when the line
\* is skipped (no match at all, or an empty release or resource name)
RowFields(line) ==
    LET row == MatchAll(line, 1)
    IN  [ok |-> row # <<>> /\ Clean(row, 1) # <<>> /\ Clean(row, 4) # <<>>,
         relName |-> Clean(row, 1),
         startMonth |-> Clean(row, 2),
         endMonth |-> Clean(row, 3),
         resName |-> Clean(row, 4),
         resRole |-> Clean(row, 5),
         resLoc |-> Clean(row, 6),
         resRate |-> parseFloat(Clean(row, 7)),
         month |-> Clean(row, 8),
         allocPct |-> parseFloat(Clean(row, 9))]

\* the fields of the data lines of a text, the header line left out
DataRows(csvText) ==
    LET lines == SplitLines(Trim(csvText))
    IN  [i \in 1..(Len(lines) - 1) |-> RowFields(lines[i + 1])]

RECURSIVE ParseRows(_, _, _)
\* the for loop of parseCSV over the data lines, acc = the collections built
\* so far and the next fresh identifier
ParseRows(rows, i, acc) ==
    IF i > Len(rows) THEN acc
    ELSE IF ~rows[i].ok THEN ParseRows(rows, i + 1, acc)
    ELSE LET f == rows[i]
             knownRel == IndexOfName(acc.releases, f.relName)
             relId == IF knownRel # 0 THEN acc.releases[knownRel].id ELSE acc.nextId
             rels1 == IF knownRel # 0 THEN acc.releases
                      ELSE Append(acc.releases,
                               [id |-> relId, name |-> f.relName,
                                startMonth |-> f.startMonth, endMonth |-> f.endMonth])
             id1 == IF knownRel # 0 THEN acc.nextId ELSE acc.nextId + 1
             knownRes == IndexOfName(acc.resources, f.resName)
             resId == IF knownRes # 0 THEN acc.resources[knownRes].id ELSE id1
             rs1 == IF knownRes # 0 THEN acc.resources
                    ELSE Append(acc.resources,
                             [id |-> resId, name |-> f.resName, role |-> f.resRole,
                              location |-> f.resLoc, rateCAD |-> f.resRate])
             id2 == IF knownRes # 0 THEN id1 ELSE id1 + 1
         IN  ParseRows(rows, i + 1,
                 [releases |-> rels1,
                  resources |-> rs1,
                  allocations |-> Append(acc.allocations,
                      [id |-> id2, releaseId |-> relId, resourceId |-> resId,
                       monthStr |-> f.month, percentage |-> f.allocPct]),
                  nextId |-> id2 + 1])

\* BuildCollections that leaves out the rows with an allocation fraction of 0
BuildCollectionsNoZero(rows, firstId) ==
    ParseRows(SelectSeq(rows, LAMBDA f : f.allocPct # Zero), 1,
        [releases |-> <<>>, resources |-> <<>>, allocations |-> <<>>, nextId |-> firstId])

\* the collections parseCSV builds from the fields of the data lines, the
\* identifiers drawn from firstId on
BuildCollections(rows, firstId) ==
    ParseRows(rows, 1,
        [releases |-> <<>>, resources |-> <<>>, allocations |-> <<>>, nextId |-> firstId])

\* parseCSV(csvText), the identifiers drawn from firstId on
parseCSV(csvText, firstId) == BuildCollections(DataRows(csvText), firstId)

-----------------------------------------------------------------------------
(* The application state after construction (the useState initial values) *)

NoOp == [op |-> "none"]

\* useState(''): no summary
NoAiSummary == [text |-> "", data |-> <<>>]

AppInit ==
    /\ releases = <<>>
    /\ resources = <<>>
    /\ allocations = <<>>
    /\ selectedReleaseId = 0
    /\ resourceToAddId = 0
    /\ nextId = 1
    /\ last = NoOp
    /\ aiSummary = NoAiSummary
    /\ isGeneratingAi = FALSE
    /\ pending = <<>>

CallIdle ==
    /\ pc = "idle"
    /\ args = <<>>
    /\ ret = <<>>

-----------------------------------------------------------------------------
(* Specification of the calendar: getMonthList on drawn tokens *)

InitCal ==
    /\ AppInit
    /\ tz \in TimeZones
    /\ pc = "ready"
    /\ args \in [start : TokenInputs, end : TokenInputs]
    /\ ret = <<>>

CallGetMonthList ==
    /\ pc = "ready"
    /\ ret' = getMonthList(args.start, args.end, tz)
    /\ pc' = "done"
    /\ UNCHANGED <<appVars, tz, args>>

NextCal == CallGetMonthList

SpecCal == InitCal /\ [][NextCal]_vars

-----------------------------------------------------------------------------
(* Specification of the aggregation: costData and                          *)
(* calculateReleaseTotalCostUSD on drawn collections                       *)

\* longest allocation collection drawn for the aggregation
MaxCostAllocs == 2

\* the release being reported
CostRelease ==
    [id |-> 1, name |-> <<"A">>,
     startMonth |-> MonthToken(FirstMonth + 1), endMonth |-> MonthToken(FirstMonth + 2)]

\* the resource collections drawn: rates 33.0 and 66.0 CAD, and one whose
\* rate did not parse on import
CostResourceLists ==
    { << [id |-> 11, name |-> <<"r">>, role |-> <<"d">>, location |-> Onsite, rateCAD |-> Num(33)],
         [id |-> 12, name |-> <<"s">>, role |-> <<"q">>, location |-> Offshore, rateCAD |-> Num(66)] >>,
      << [id |-> 11, name |-> <<"r">>, role |-> <<"d">>, location |-> Onsite, rateCAD |-> NaN],
         [id |-> 12, name |-> <<"s">>, role |-> <<"q">>, location |-> Offshore, rateCAD |-> Num(66)] >> }

\* the allocations drawn: of the release or of another one, of a resource of
\* the collection or of none (13), in a month of the range or outside it,
\* with a percentage of 0.5, 1.0 or NaN
CostAllocs ==
    [id : {0}, releaseId : {1, 2}, resourceId : {11, 12, 13},
     monthStr : {MonthToken(FirstMonth + 1), MonthToken(FirstMonth + 2), MonthToken(FirstMonth + 4)},
     percentage : {Decimal(5, -1), Num(1), NaN}]

RECURSIVE SeqsUpTo(_, _)
\* the sequences over S of length at most n
SeqsUpTo(S, n) ==
    IF n = 0 THEN {<<>>}
    ELSE LET shorter == SeqsUpTo(S, n - 1)
         IN  shorter \cup {Append(q, x) : q \in shorter, x \in S}

InitCost ==
    /\ AppInit
    /\ tz \in TimeZones
    /\ pc = "ready"
    /\ args \in [release : {CostRelease}, resources : CostResourceLists,
                 allocations : SeqsUpTo(CostAllocs, MaxCostAllocs)]
    /\ ret = [cost |-> <<>>, total |-> Zero]

\* the report view evaluates costData for the active release
CallCostData ==
    /\ pc = "ready"
    /\ ret' = [ret EXCEPT !.cost = costData(args.release, args.resources, args.allocations, tz)]
    /\ pc' = "cost"
    /\ UNCHANGED <<appVars, tz, args>>

\* the portfolio table evaluates calculateReleaseTotalCostUSD for the release
CallReleaseTotal ==
    /\ pc = "cost"
    /\ ret' = [ret EXCEPT !.total =
                   calculateReleaseTotalCostUSD(args.release, args.resources, args.allocations, tz)]
    /\ pc' = "done"
    /\ UNCHANGED <<appVars, tz, args>>

NextCost == CallCostData \/ CallReleaseTotal

SpecCost == InitCost /\ [][NextCost]_vars

-----------------------------------------------------------------------------
(* The monthly cost: calculateMonthlyResourceCostUSD on drawn inputs *)

\* rates drawn: the multiples of 33 CAD up to MaxRateSteps * 33 (132 CAD is
\* the fourth), 2 CAD, 33.5 CAD, -33 CAD, 1e307 CAD, whose cost is beyond
\* the largest double, and 5e-324 CAD, the smallest double above 0
MaxRateSteps == 6
RateInputs ==
    {Num(k * 33) : k \in 0..MaxRateSteps}
        \cup {Num(2), Decimal(335, -1), Num(-33), Decimal(1, 307), Decimal(5, -324)}
\* locations drawn: the two of the enumeration and a text an imported file
\* may carry
OtherLocation == <<"M", "a", "r", "s">>
LocationInputs == {Onsite, Offshore, OtherLocation}
\* allocation fractions drawn: 0.0 to 1.0 in tenths, 0.01 and 0.001
FractionInputs == {Decimal(k, -1) : k \in 0..10} \cup {Decimal(1, -2), Decimal(1, -3)}

InitRate ==
    /\ AppInit
    /\ tz = UTC
    /\ pc = "ready"
    /\ args \in [resource : [id : {11}, name : {<<"r">>}, role : {<<"d">>},
                             location : LocationInputs, rateCAD : RateInputs],
                 pct : FractionInputs]
    /\ ret = Zero

CallMonthlyCost ==
    /\ pc = "ready"
    /\ ret' = calculateMonthlyResourceCostUSD(args.resource, args.pct)
    /\ pc' = "done"
    /\ UNCHANGED <<appVars, tz, args>>

NextRate == CallMonthlyCost

SpecRate == InitRate /\ [][NextRate]_vars

-----------------------------------------------------------------------------
(* The export: generateCSV on drawn datasets *)

\* longest allocation collection drawn for the export
MaxCsvAllocs == 2

\* a second release, of one month
CsvReleaseB ==
    [id |-> 2, name |-> <<"B">>,
     startMonth |-> MonthToken(FirstMonth + 2), endMonth |-> MonthToken(FirstMonth + 2)]

\* the release collections drawn
CsvReleaseLists == { <<CostRelease>>, <<CostRelease, CsvReleaseB>> }

\* the allocations drawn: of either release, of a resource of the collection
\* or of none (13), in the first or the second month of the first release,
\* at 0.5
CsvAllocs ==
    [id : {0}, releaseId : {1, 2}, resourceId : {11, 12, 13},
     monthStr : {MonthToken(FirstMonth + 1), MonthToken(FirstMonth + 2)},
     percentage : {Decimal(5, -1)}]

InitCsv ==
    /\ AppInit
    /\ tz = UTC
    /\ pc = "ready"
    /\ args \in [releases : CsvReleaseLists, resources : CostResourceLists,
                 allocations : SeqsUpTo(CsvAllocs, MaxCsvAllocs)]
    /\ ret = <<>>

CallGenerateCSV ==
    /\ pc = "ready"
    /\ ret' = generateCSV(args.releases, args.resources, args.allocations, tz)
    /\ pc' = "done"
    /\ UNCHANGED <<appVars, tz, args>>

NextCsv == CallGenerateCSV

SpecCsv == InitCsv /\ [][NextCsv]_vars

-----------------------------------------------------------------------------
(* The executive summary: generateExecutiveSummary *)

\* the messages the function returns
KeyNotFoundMessage == "API Key not found. Please configure the environment."
NoSummaryMessage == "Could not generate summary."
ErrorMessage == "Error generating executive summary. Please check your API key and try again."
\* a text written by the service
ServiceText == "summary"

RECURSIVE ResCostLoop(_, _, _, _, _)
\* months.forEach of one resource: resCost so far, the first allocation of
\* (resource, month, release) counted when there is one
ResCostLoop(months, res, release, allocs, resCost) ==
    IF months = <<>> THEN resCost
    ELSE LET ai == FindIndex({i \in 1..Len(allocs) :
                       /\ allocs[i].resourceId = res.id
                       /\ allocs[i].monthStr = Head(months)
                       /\ allocs[i].releaseId = release.id})
         IN  ResCostLoop(Tail(months), res, release, allocs,
                 IF ai # 0
                 THEN Add(resCost, calculateMonthlyResourceCostUSD(res, allocs[ai].percentage))
                 ELSE resCost)

RECURSIVE SummaryLoop(_, _, _, _, _)
\* resources.map: acc = [totalCost, resCosts] so far, resCosts the amount of
\* each resource in the order of the collection
SummaryLoop(rs, months, release, allocs, acc) ==
    IF rs = <<>> THEN acc
    ELSE LET resCost == ResCostLoop(months, Head(rs), release, allocs, Zero)
         IN  SummaryLoop(Tail(rs), months, release, allocs,
                 [totalCost |-> Add(acc.totalCost, resCost),
                  resCosts |-> Append(acc.resCosts, resCost)])

\* the data context of the prompt: the total and the amount per resource
SummaryTotals(release, rs, allocs, zone) ==
    SummaryLoop(rs, getMonthList(release.startMonth, release.endMonth, zone),
                release, allocs, [totalCost |-> Zero, resCosts |-> <<>>])

\* longest allocation collection drawn for the summary
MaxSummaryAllocs == 1

\* the environment of a call: whether process.env.API_KEY is set, whether
\* the client constructor throws, and how the service call ends
ConstructOutcomes == {"ok", "throws"}
ServiceOutcomes == {"text", "empty", "networkFault", "serviceError"}

InitSummary ==
    /\ AppInit
    /\ tz = UTC
    /\ pc = "ready"
    /\ args \in [release : {CostRelease}, resources : CostResourceLists,
                 allocations : SeqsUpTo(CostAllocs, MaxSummaryAllocs),
                 apiKey : BOOLEAN, construct : ConstructOutcomes, service : ServiceOutcomes]
    /\ ret = [text |-> "", totals |-> <<>>]

\* generateExecutiveSummary up to its await
SummaryStart ==
    /\ pc = "ready"
    /\ IF ~args.apiKey
       THEN pc' = "resolved" /\ ret' = [ret EXCEPT !.text = KeyNotFoundMessage]
       ELSE IF args.construct = "throws"
       THEN \* new GoogleGenAI() is outside the try block
            pc' = "rejected" /\ ret' = ret
       ELSE /\ pc' = "awaiting"
            /\ ret' = [ret EXCEPT !.totals =
                           SummaryTotals(args.release, args.resources, args.allocations, tz)]
    /\ UNCHANGED <<appVars, tz, args>>

\* the service call settles: inside the try block
SummaryFinish ==
    /\ pc = "awaiting"
    /\ pc' = "resolved"
    /\ ret' = [ret EXCEPT !.text =
                   CASE args.service = "text" -> ServiceText
                     [] args.service = "empty" -> NoSummaryMessage
                     [] OTHER -> ErrorMessage]
    /\ UNCHANGED <<appVars, tz, args>>

NextSummary == SummaryStart \/ SummaryFinish

SpecSummary == InitSummary /\ [][NextSummary]_vars

-----------------------------------------------------------------------------
(* The application: the handlers of App as actions *)

\* identifiers crypto.randomUUID() may hand out in one run
MaxId == 5
\* longest allocation collection the model lets the handlers build
MaxAllocs == 3
\* most releases and most resources the model lets the user add
MaxReleases == 2
MaxResources == 1

\* what the user types or picks in the forms
\* release forms: A and B from November to December of BaseYear (two months
\* on a UTC host, one on a New York host)
ReleaseInputs ==
    { [name |-> <<"A">>, startMonth |-> MonthToken(FirstMonth + 2), endMonth |-> MonthToken(FirstMonth + 3)],
      [name |-> <<"B">>, startMonth |-> MonthToken(FirstMonth + 2), endMonth |-> MonthToken(FirstMonth + 3)] }
\* resource form: r, an onsite developer at 33 CAD
ResourceInputs ==
    { [name |-> <<"r">>, role |-> <<"d">>, location |-> Onsite, rateCAD |-> Num(33)] }
\* texts typed into an allocation cell: 7 and -1
CellInputs == {<<"7">>, <<"-", "1">>}
\* the hosts the application is run on
AppZones == {UTC, NewYork}

\* a file written by hand: release A of two months with resource r, two rows
\* for the first month and none for the second
SampleRow1 ==
    <<"\"", "A", "\"", ",", "2", "0", "2", "4", "-", "1", "0", ",", "2", "0", "2", "4", "-", "1", "1", ",", "\"", "r", "\"", ",", "\"", "d", "\"", ",", "O", "n", "s", "i", "t", "e", ",", "3", "3", ",", "2", "0", "2", "4", "-", "1", "0", ",", "0", ".", "5", ",", "2", "1", "0", "0", ".", "0", "0">>
SampleRow2 ==
    <<"\"", "A", "\"", ",", "2", "0", "2", "4", "-", "1", "0", ",", "2", "0", "2", "4", "-", "1", "1", ",", "\"", "r", "\"", ",", "\"", "d", "\"", ",", "O", "n", "s", "i", "t", "e", ",", "3", "3", ",", "2", "0", "2", "4", "-", "1", "0", ",", "1", ",", "4", "2", "0", "0", ".", "0", "0">>
SampleFile == Join(<<CsvHeaders, SampleRow1, SampleRow2>>, <<"\n">>)
\* a file with the header row alone
HeaderOnlyFile == CsvHeaders

\* const activeRelease = releases.find(r => r.id === selectedReleaseId), as an
\* index into releases (0 = undefined)
ActiveReleaseIdx == FindRelease(releases, selectedReleaseId)

ActiveReleaseMonths ==
    IF ActiveReleaseIdx = 0 THEN <<>>
    ELSE getMonthList(releases[ActiveReleaseIdx].startMonth,
                      releases[ActiveReleaseIdx].endMonth, tz)

\* renderAllocation: the ids of the resources with an allocation under the
\* active release
AssignedResourceIds ==
    {allocations[i].resourceId : i \in {j \in 1..Len(allocations) :
        allocations[j].releaseId = releases[ActiveReleaseIdx].id}}

Ids(recs) == {recs[i].id : i \in 1..Len(recs)}

handleAddRelease(name, startMonth, endMonth) ==
    /\ name # <<>> /\ startMonth # <<>> /\ endMonth # <<>>
    /\ nextId <= MaxId /\ Len(releases) < MaxReleases
    /\ releases' = Append(releases,
           [id |-> nextId, name |-> name, startMonth |-> startMonth, endMonth |-> endMonth])
    /\ selectedReleaseId' = IF selectedReleaseId = 0 THEN nextId ELSE selectedReleaseId
    /\ nextId' = nextId + 1
    /\ last' = [op |-> "other"]
    /\ UNCHANGED <<resources, allocations, resourceToAddId>>

\* handleDeleteRelease without the cascade: the allocations are left alone
handleDeleteReleaseNoCascade(id) ==
    /\ releases' = SelectSeq(releases, LAMBDA r : r.id # id)
    /\ allocations' = allocations
    /\ selectedReleaseId' = IF selectedReleaseId = id THEN 0 ELSE selectedReleaseId
    /\ last' = [op |-> "deleteRelease", id |-> id]
    /\ UNCHANGED <<resources, resourceToAddId, nextId>>

handleDeleteRelease(id) ==
    /\ releases' = SelectSeq(releases, LAMBDA r : r.id # id)
    /\ allocations' = SelectSeq(allocations, LAMBDA a : a.releaseId # id)
    /\ selectedReleaseId' = IF selectedReleaseId = id THEN 0 ELSE selectedReleaseId
    /\ last' = [op |-> "deleteRelease", id |-> id]
    /\ UNCHANGED <<resources, resourceToAddId, nextId>>

handleAddResource(form) ==
    /\ form.name # <<>> /\ form.role # <<>> /\ form.rateCAD \notin {Zero, NaN}
    /\ nextId <= MaxId /\ Len(resources) < MaxResources
    /\ resources' = Append(resources,
           [id |-> nextId, name |-> form.name, role |-> form.role,
            location |-> form.location, rateCAD |-> form.rateCAD])
    /\ nextId' = nextId + 1
    /\ last' = [op |-> "other"]
    /\ UNCHANGED <<releases, allocations, selectedReleaseId, resourceToAddId>>

\* the allocations handleAssignResourceToRelease builds: one per month, with
\* fresh identifiers from firstId on
NewAllocations(release, resourceId, months, firstId) ==
    [k \in 1..Len(months) |->
        [id |-> firstId + k - 1, releaseId |-> release.id, resourceId |-> resourceId,
         monthStr |-> months[k], percentage |-> Num(1)]]

handleAssignResourceToRelease ==
    /\ IF selectedReleaseId = 0 \/ resourceToAddId = 0 \/ ActiveReleaseIdx = 0
       THEN \* the early returns
            UNCHANGED <<allocations, nextId, resourceToAddId>>
       ELSE LET release == releases[ActiveReleaseIdx]
                months == getMonthList(release.startMonth, release.endMonth, tz)
            IN  /\ nextId + Len(months) - 1 <= MaxId
                /\ Len(allocations) + Len(months) <= MaxAllocs
                /\ allocations' = allocations \o NewAllocations(release, resourceToAddId, months, nextId)
                /\ nextId' = nextId + Len(months)
                /\ resourceToAddId' = 0
    /\ last' = [op |-> "assign"]
    /\ UNCHANGED <<releases, resources, selectedReleaseId>>

handleRemoveResourceFromRelease(resourceId) ==
    /\ selectedReleaseId # 0
    /\ allocations' = SelectSeq(allocations,
           LAMBDA a : ~(a.releaseId = selectedReleaseId /\ a.resourceId = resourceId))
    /\ last' = [op |-> "other"]
    /\ UNCHANGED <<releases, resources, selectedReleaseId, resourceToAddId, nextId>>

\* handleUpdateAllocation without the lookup: a record is always pushed
handleUpdateAllocationAlwaysPush(releaseId, resourceId, monthStr, val) ==
    /\ nextId <= MaxId /\ Len(allocations) < MaxAllocs
    /\ allocations' = Append(allocations,
           [id |-> nextId, releaseId |-> releaseId, resourceId |-> resourceId,
            monthStr |-> monthStr, percentage |-> val])
    /\ nextId' = nextId + 1
    /\ last' = [op |-> "update", releaseId |-> releaseId, resourceId |-> resourceId,
                monthStr |-> monthStr, val |-> val]
    /\ UNCHANGED <<releases, resources, selectedReleaseId, resourceToAddId>>

handleUpdateAllocation(releaseId, resourceId, monthStr, val) ==
    LET existingIndex ==
            FindIndex({i \in 1..Len(allocations) :
                /\ allocations[i].releaseId = releaseId
                /\ allocations[i].resourceId = resourceId
                /\ allocations[i].monthStr = monthStr})
        newAllocation ==
            [id |-> IF existingIndex # 0 THEN allocations[existingIndex].id ELSE nextId,
             releaseId |-> releaseId, resourceId |-> resourceId,
             monthStr |-> monthStr, percentage |-> val]
    IN  /\ existingIndex = 0 => nextId <= MaxId /\ Len(allocations) < MaxAllocs
        /\ allocations' = IF existingIndex # 0
                          THEN [allocations EXCEPT ![existingIndex] = newAllocation]
                          ELSE Append(allocations, newAllocation)
        /\ nextId' = IF existingIndex # 0 THEN nextId ELSE nextId + 1
        /\ last' = [op |-> "update", releaseId |-> releaseId, resourceId |-> resourceId,
                    monthStr |-> monthStr, val |-> val]
        /\ UNCHANGED <<releases, resources, selectedReleaseId, resourceToAddId>>

\* the onChange of an allocation cell: the typed text is parsed, NaN becomes
\* 0 and a value above 1 becomes 1
CellValue(text) ==
    LET v == parseFloat(text)
        v1 == IF isNaN(v) THEN Zero ELSE v
    IN  IF Less(Num(1), v1) THEN Num(1) ELSE v1

\* a cell of the allocation matrix is edited: a resource assigned to the
\* active release, a month of its month list
EditCell(resourceId, monthStr, text) ==
    /\ ActiveReleaseIdx # 0
    /\ resourceId \in AssignedResourceIds \cap Ids(resources)
    /\ Includes(ActiveReleaseMonths, monthStr)
    /\ handleUpdateAllocation(releases[ActiveReleaseIdx].id, resourceId, monthStr, CellValue(text))

\* the "resource to add" select offers the resources not yet assigned to the
\* active release
PickResourceToAdd(id) ==
    /\ ActiveReleaseIdx # 0
    /\ id \in Ids(resources) \ AssignedResourceIds
    /\ resourceToAddId' = id
    /\ last' = [op |-> "other"]
    /\ UNCHANGED <<releases, resources, allocations, selectedReleaseId, nextId>>

\* the release selector offers the releases
SelectRelease(id) ==
    /\ id \in Ids(releases)
    /\ selectedReleaseId' = id
    /\ last' = [op |-> "other"]
    /\ UNCHANGED <<releases, resources, allocations, resourceToAddId, nextId>>

\* the download changes nothing in the application
handleExportCSV ==
    /\ last' = [op |-> "other"]
    /\ UNCHANGED <<releases, resources, allocations, selectedReleaseId, resourceToAddId, nextId>>

\* handleImportCSV without setAllocations: the allocations held are kept
handleImportCSVKeepAllocations(rows) ==
    LET parsed == BuildCollections(rows, nextId)
    IN  /\ parsed.nextId - 1 <= MaxId
        /\ releases' = parsed.releases
        /\ resources' = parsed.resources
        /\ allocations' = allocations
        /\ selectedReleaseId' = IF Len(parsed.releases) > 0 THEN parsed.releases[1].id
                                ELSE selectedReleaseId
        /\ nextId' = parsed.nextId
        /\ last' = [op |-> "other"]
        /\ UNCHANGED resourceToAddId

\* reader.onload of handleImportCSV, rows the fields of the data lines of
\* the file read
handleImportCSV(rows) ==
    LET parsed == BuildCollections(rows, nextId)
    IN  /\ parsed.nextId - 1 <= MaxId
        /\ Len(parsed.allocations) <= MaxAllocs
        /\ releases' = parsed.releases
        /\ resources' = parsed.resources
        /\ allocations' = parsed.allocations
        /\ selectedReleaseId' = IF Len(parsed.releases) > 0 THEN parsed.releases[1].id
                                ELSE selectedReleaseId
        /\ nextId' = parsed.nextId
        /\ last' = [op |-> "other"]
        /\ UNCHANGED resourceToAddId

\* the data lines of the hand-written files
SampleRows == DataRows(SampleFile)
HeaderOnlyRows == DataRows(HeaderOnlyFile)

\* the file picked for import, as the fields of its data lines: a
\* hand-written one, or the file the application would export now (with a
\* data row it needs three fresh identifiers at least; without one it is the
\* header alone)
ImportInputs ==
    {SampleRows, HeaderOnlyRows}
    \cup (IF nextId + 2 <= MaxId
          THEN {DataRows(generateCSV(releases, resources, allocations, tz))} ELSE {})

-----------------------------------------------------------------------------
(* The import: parseCSV on drawn files *)

\* most data lines of a drawn file
MaxFileRows == 2

\* a data line with the ten fields given
RowText(fields) == Join(fields, <<",">>)

\* the data lines drawn
\* the rows of the sample file: release A, resource r, the same month twice
\* release A and resource r again with other attributes, fraction 0
SameNamesRow ==
    RowText(<<Quoted(<<"A">>), MonthToken(FirstMonth + 3), MonthToken(FirstMonth + 3),
              Quoted(<<"r">>), Quoted(<<"q">>), Offshore, <<"6", "6">>,
              MonthToken(FirstMonth + 2), <<"0">>, <<"0", ".", "0", "0">>>>)
\* release B and resource s
OtherNamesRow ==
    RowText(<<Quoted(<<"B">>), MonthToken(FirstMonth + 1), MonthToken(FirstMonth + 1),
              Quoted(<<"s">>), Quoted(<<"q">>), Offshore, <<"6", "6">>,
              MonthToken(FirstMonth + 1), <<"1">>, <<"9", "4", "5", "0", ".", "0", "0">>>>)
\* a release name of "" (quoted and empty)
QuotedEmptyNameRow ==
    RowText(<<Quoted(<<>>), MonthToken(FirstMonth + 1), MonthToken(FirstMonth + 2),
              Quoted(<<"r">>), Quoted(<<"d">>), Onsite, <<"3", "3">>,
              MonthToken(FirstMonth + 1), <<"0", ".", "5">>, <<"2", "1", "0", "0", ".", "0", "0">>>>)
\* a release name field with nothing in it
EmptyReleaseNameRow ==
    RowText(<<<<>>, MonthToken(FirstMonth + 1), MonthToken(FirstMonth + 2),
              Quoted(<<"r">>), Quoted(<<"d">>), Onsite, <<"3", "3">>,
              MonthToken(FirstMonth + 1), <<"0", ".", "5">>, <<"2", "1", "0", "0", ".", "0", "0">>>>)
\* a resource name field with nothing in it
EmptyResourceNameRow ==
    RowText(<<Quoted(<<"A">>), MonthToken(FirstMonth + 1), MonthToken(FirstMonth + 2),
              <<>>, Quoted(<<"d">>), Onsite, <<"3", "3">>,
              MonthToken(FirstMonth + 1), <<"0", ".", "5">>, <<"2", "1", "0", "0", ".", "0", "0">>>>)
\* an empty line
BlankRow == <<>>

FileRowInputs ==
    {SampleRow1, SampleRow2, SameNamesRow, OtherNamesRow, QuotedEmptyNameRow,
     EmptyReleaseNameRow, EmptyResourceNameRow, BlankRow}

\* the text of the file with the given data lines
FileText(rows) == Join(<<CsvHeaders>> \o rows, <<"\n">>)

InitParse ==
    /\ AppInit
    /\ tz = UTC
    /\ pc = "ready"
    /\ args \in [rows : SeqsUpTo(FileRowInputs, MaxFileRows)]
    /\ ret = <<>>

CallParseCSV ==
    /\ pc = "ready"
    /\ ret' = parseCSV(FileText(args.rows), 1)
    /\ pc' = "done"
    /\ UNCHANGED <<appVars, tz, args>>

NextParse == CallParseCSV

SpecParse == InitParse /\ [][NextParse]_vars

Init ==
    /\ AppInit
    /\ tz \in AppZones
    /\ CallIdle

Next ==
    \/ \E form \in ReleaseInputs :
           handleAddRelease(form.name, form.startMonth, form.endMonth) /\ UNCHANGED <<tz, callVars, aiVars>>
    \/ \E id \in 1..(nextId - 1) :
           handleDeleteRelease(id) /\ UNCHANGED <<tz, callVars, aiVars>>
    \/ \E form \in ResourceInputs : handleAddResource(form) /\ UNCHANGED <<tz, callVars, aiVars>>
    \/ \E id \in Ids(resources) : PickResourceToAdd(id) /\ UNCHANGED <<tz, callVars, aiVars>>
    \/ handleAssignResourceToRelease /\ UNCHANGED <<tz, callVars, aiVars>>
    \/ \E id \in Ids(resources) : handleRemoveResourceFromRelease(id) /\ UNCHANGED <<tz, callVars, aiVars>>
    \/ \E id \in Ids(resources), m \in Range(ActiveReleaseMonths), text \in CellInputs :
           EditCell(id, m, text) /\ UNCHANGED <<tz, callVars, aiVars>>
    \/ \E id \in Ids(releases) : SelectRelease(id) /\ UNCHANGED <<tz, callVars, aiVars>>
    \/ handleExportCSV /\ UNCHANGED <<tz, callVars, aiVars>>
    \/ \E rows \in ImportInputs : handleImportCSV(rows) /\ UNCHANGED <<tz, callVars, aiVars>>

Spec == Init /\ [][Next]_vars

-----------------------------------------------------------------------------
(* The application with its summary requests *)

\* what the prompt of a summary of release rel is made from: the release,
\* the resources and the derived amounts
PromptData(rel) ==
    [release |-> rel, resources |-> resources,
     totals |-> SummaryTotals(rel, resources, allocations, tz)]

\* the text generateExecutiveSummary resolves to after the service call
SummaryText(outcome) ==
    CASE outcome = "text" -> ServiceText
      [] outcome = "empty" -> NoSummaryMessage
      [] OTHER -> ErrorMessage

\* A request in flight is the data its prompt was made from and the text
\* its promise is resolved with already, NoAnswer while the service has not
\* answered.
NoAnswer == ""

Request(rel, answer) == [data |-> PromptData(rel), answer |-> answer]

\* the promise of the oldest request is resolved and the continuation of
\* its handler is the next job to run: no other event is handled before it
ResumeDue == pending # <<>> /\ Head(pending).answer # NoAnswer

\* a click on "Generate Summary", up to the await: the button is rendered
\* with an active release and disabled while isGeneratingAi; key tells
\* whether process.env.API_KEY is set, construct how new GoogleGenAI() ends.
\* With no key the promise is resolved with the message at once; when the
\* constructor throws the promise is rejected, the handler rejects at its
\* await and never reaches setIsGeneratingAi(false).
handleGenerateSummary(key, construct) ==
    /\ ~isGeneratingAi
    /\ ActiveReleaseIdx # 0
    /\ aiSummary' = NoAiSummary
    /\ isGeneratingAi' = TRUE
    /\ pending' = IF ~key
                  THEN Append(pending, Request(releases[ActiveReleaseIdx], KeyNotFoundMessage))
                  ELSE IF construct = "throws" THEN pending
                  ELSE Append(pending, Request(releases[ActiveReleaseIdx], NoAnswer))
    /\ last' = [op |-> "other"]
    /\ UNCHANGED <<releases, resources, allocations, selectedReleaseId, resourceToAddId, nextId>>

\* the handler of the oldest request resumes after its await with the text
\* the promise is resolved with
ResumeWith(text) ==
    /\ aiSummary' = [text |-> text, data |-> Head(pending).data]
    /\ isGeneratingAi' = FALSE
    /\ pending' = Tail(pending)
    /\ last' = [op |-> "other"]
    /\ UNCHANGED <<releases, resources, allocations, selectedReleaseId, resourceToAddId, nextId>>

\* the continuation of a request that was resolved at once
SummaryResumes == ResumeDue /\ ResumeWith(Head(pending).answer)

\* the service call of the oldest request settles and the handler resumes
\* after its await
SummaryArrives(outcome) ==
    /\ pending # <<>>
    /\ Head(pending).answer = NoAnswer
    /\ ResumeWith(SummaryText(outcome))

\* renderReports shows the summary panel for an active release, and the
\* text of aiSummary in it when it is not empty
SummaryDisplayed == ActiveReleaseIdx # 0 /\ aiSummary.text # ""

\* the files picked for import while summaries are requested
AiImportInputs == {SampleRows, HeaderOnlyRows}
\* the text typed into an allocation cell while summaries are requested
AiCellInputs == {<<"7">>}

InitAi ==
    /\ AppInit
    /\ tz = UTC
    /\ CallIdle

NextAi ==
    \/ \E form \in ReleaseInputs :
           /\ ~ResumeDue
           /\ handleAddRelease(form.name, form.startMonth, form.endMonth)
           /\ UNCHANGED <<tz, callVars, aiVars>>
    \/ \E id \in Ids(releases) :
           ~ResumeDue /\ handleDeleteRelease(id) /\ UNCHANGED <<tz, callVars, aiVars>>
    \/ \E form \in ResourceInputs :
           ~ResumeDue /\ handleAddResource(form) /\ UNCHANGED <<tz, callVars, aiVars>>
    \/ \E id \in Ids(resources) :
           ~ResumeDue /\ PickResourceToAdd(id) /\ UNCHANGED <<tz, callVars, aiVars>>
    \/ ~ResumeDue /\ handleAssignResourceToRelease /\ UNCHANGED <<tz, callVars, aiVars>>
    \/ \E id \in Ids(resources) :
           /\ ~ResumeDue
           /\ handleRemoveResourceFromRelease(id)
           /\ UNCHANGED <<tz, callVars, aiVars>>
    \/ \E id \in Ids(resources), m \in Range(ActiveReleaseMonths), text \in AiCellInputs :
           ~ResumeDue /\ EditCell(id, m, text) /\ UNCHANGED <<tz, callVars, aiVars>>
    \/ \E id \in Ids(releases) :
           ~ResumeDue /\ SelectRelease(id) /\ UNCHANGED <<tz, callVars, aiVars>>
    \/ ~ResumeDue /\ handleExportCSV /\ UNCHANGED <<tz, callVars, aiVars>>
    \/ \E rows \in AiImportInputs :
           ~ResumeDue /\ handleImportCSV(rows) /\ UNCHANGED <<tz, callVars, aiVars>>
    \/ \E key \in BOOLEAN, construct \in ConstructOutcomes :
           handleGenerateSummary(key, construct) /\ UNCHANGED <<tz, callVars>>
    \/ SummaryResumes /\ UNCHANGED <<tz, callVars>>
    \/ \E outcome \in ServiceOutcomes : SummaryArrives(outcome) /\ UNCHANGED <<tz, callVars>>

SpecAi == InitAi /\ [][NextAi]_vars

\* the continuation of a resolved request runs, and the service call of a
\* request in flight settles in the end
SpecAiLive ==
    /\ SpecAi
    /\ WF_vars(SummaryResumes /\ UNCHANGED <<tz, callVars>>)
    /\ WF_vars(\E outcome \in ServiceOutcomes : SummaryArrives(outcome) /\ UNCHANGED <<tz, callVars>>)

-----------------------------------------------------------------------------
(* Claims *)

\* the allocations at positions i and j are for the same (release, resource,
\* month) triple
SameTriple(a, b) ==
    a.releaseId = b.releaseId /\ a.resourceId = b.resourceId /\ a.monthStr = b.monthStr

\* C1: in every reachable state the allocation collection holds at most one
\* allocation for each (releaseId, resourceId, monthStr) triple.
C1_AtMostOnePerTriple ==
    \A i, j \in 1..Len(allocations) :
        SameTriple(allocations[i], allocations[j]) => i = j

\* C2: deleting the release with id X removes exactly the allocations whose
\* releaseId is X, in place, and removes that release; every other
\* allocation, every other release and every resource is unchanged; when no
\* release has id X, releases and allocations are unchanged.
C2_DeleteReleaseFrame ==
    [][last'.op = "deleteRelease" =>
          LET X == last'.id
              KeptAllocs == {i \in 1..Len(allocations) : allocations[i].releaseId # X}
              KeptRels == {i \in 1..Len(releases) : releases[i].id # X}
          IN  /\ Len(allocations') = Cardinality(KeptAllocs)
              /\ \A i \in KeptAllocs :
                     allocations'[Cardinality({j \in KeptAllocs : j <= i})] = allocations[i]
              /\ Len(releases') = Cardinality(KeptRels)
              /\ \A i \in KeptRels :
                     releases'[Cardinality({j \in KeptRels : j <= i})] = releases[i]
              /\ resources' = resources
              /\ (X \notin Ids(releases)) =>
                     (releases' = releases /\ allocations' = allocations)]_vars

\* a release was deleted while a resource, another release and an allocation
\* of that other release stayed
C2_Witness ==
    /\ last.op = "deleteRelease"
    /\ resources # <<>>
    /\ \E i \in 1..Len(releases), k \in 1..Len(allocations) :
           allocations[k].releaseId = releases[i].id /\ releases[i].id > last.id

\* C3: upserting a triple that has an allocation replaces that allocation's
\* percentage, keeps its identifier and position and the number of
\* allocations; upserting a triple that has none adds exactly one record with
\* a fresh identifier and changes no existing record.
C3_Upsert ==
    [][last'.op = "update" =>
          LET t == last'
              Existing == {i \in 1..Len(allocations) : SameTriple(allocations[i], t)}
              n == Len(allocations)
          IN  IF Existing # {}
              THEN /\ Len(allocations') = n
                   /\ \E i \in Existing :
                          /\ allocations'[i] = [allocations[i] EXCEPT !.percentage = t.val]
                          /\ \A j \in (1..n) \ {i} : allocations'[j] = allocations[j]
              ELSE /\ Len(allocations') = n + 1
                   /\ SubSeq(allocations', 1, n) = allocations
                   /\ SameTriple(allocations'[n + 1], t)
                   /\ allocations'[n + 1].percentage = t.val
                   /\ allocations'[n + 1].id \notin
                          Ids(allocations) \cup Ids(releases) \cup Ids(resources)]_vars

\* the cell of a month without a record was edited next to two records of
\* another month: the record just added is the last one, with the newest
\* identifier
C3_Witness ==
    /\ last.op = "update"
    /\ Len(allocations) = 3
    /\ SameTriple(allocations[3], last)
    /\ allocations[3].percentage = last.val
    /\ allocations[3].id = nextId - 1
    /\ ~SameTriple(allocations[1], last) /\ ~SameTriple(allocations[2], last)
    /\ allocations[1].id < allocations[3].id /\ allocations[2].id < allocations[3].id

\* the documented precondition of the file format: releases have pairwise
\* distinct names and so have resources
DistinctNames ==
    /\ \A i, j \in 1..Len(releases) : releases[i].name = releases[j].name => i = j
    /\ \A i, j \in 1..Len(resources) : resources[i].name = resources[j].name => i = j

\* parseCSV(generateCSV(releases, resources, allocations)) on this host
RoundTrip == parseCSV(generateCSV(releases, resources, allocations, tz), nextId)

\* f[k], 0 when f has no entry for k
ValueOrZero(f, k) == IF k \in DOMAIN f THEN f[k] ELSE Zero

\* the breakdown of release rel1 over (rs1, allocs1) and the breakdown of
\* rel2 over (rs2, allocs2) agree on the total, on every month and on every
\* resource name (an absent entry counts as 0)
SameBreakdown(rel1, rs1, allocs1, rel2, rs2, allocs2) ==
    LET c1 == costData(rel1, rs1, allocs1, tz)
        c2 == costData(rel2, rs2, allocs2, tz)
        ByName(c, rs, name) ==
            LET k == IndexOfName(rs, name)
            IN  IF k = 0 THEN Zero ELSE c.byResource[rs[k].id]
    IN  /\ c1.total = c2.total
        /\ \A m \in DOMAIN c1.byMonth \cup DOMAIN c2.byMonth :
               ValueOrZero(c1.byMonth, m) = ValueOrZero(c2.byMonth, m)
        /\ \A name \in {r.name : r \in Range(rs1) \cup Range(rs2)} :
               ByName(c1, rs1, name) = ByName(c2, rs2, name)

\* C5: for every reachable dataset with pairwise-distinct release names and
\* resource names, the dataset parsed back from its export has, for each
\* original release, a same-named release whose cost breakdown (total, per
\* month, per resource name) equals the original's.
C5_RoundTripKeepsBreakdown ==
    DistinctNames =>
        LET parsed == RoundTrip
        IN  \A i \in 1..Len(releases) :
                \E j \in 1..Len(parsed.releases) :
                    /\ parsed.releases[j].name = releases[i].name
                    /\ SameBreakdown(releases[i], resources, allocations,
                                     parsed.releases[j], parsed.resources, parsed.allocations)

\* C6: export followed by import is lossless: with pairwise-distinct names,
\* the parsed dataset holds, up to identifiers, every release (name, start
\* month, end month), every resource (name, role, location, rate) and every
\* in-range allocation, releases without a resource and resources without
\* an allocation included.
C6_ExportImportLossless ==
    DistinctNames =>
        LET parsed == RoundTrip
            RelOf(rels, id) == rels[FindRelease(rels, id)]
            ResOf(rs, id) == rs[FindResource(rs, id)]
        IN  /\ \A r \in Range(releases) : \E p \in Range(parsed.releases) :
                   /\ p.name = r.name
                   /\ p.startMonth = r.startMonth
                   /\ p.endMonth = r.endMonth
            /\ \A r \in Range(resources) : \E p \in Range(parsed.resources) :
                   /\ p.name = r.name
                   /\ p.role = r.role
                   /\ p.location = r.location
                   /\ p.rateCAD = r.rateCAD
            /\ \A a \in Range(allocations) :
                   (/\ FindRelease(releases, a.releaseId) # 0
                    /\ FindResource(resources, a.resourceId) # 0
                    /\ Includes(getMonthList(RelOf(releases, a.releaseId).startMonth,
                                             RelOf(releases, a.releaseId).endMonth, tz),
                                a.monthStr))
                   => \E p \in Range(parsed.allocations) :
                          /\ FindRelease(parsed.releases, p.releaseId) # 0
                          /\ FindResource(parsed.resources, p.resourceId) # 0
                          /\ RelOf(parsed.releases, p.releaseId).name
                                 = RelOf(releases, a.releaseId).name
                          /\ ResOf(parsed.resources, p.resourceId).name
                                 = ResOf(resources, a.resourceId).name
                          /\ p.monthStr = a.monthStr
                          /\ p.percentage = a.percentage

\* the value sgn * m * 2^k itself, of any size: nothing is rounded
Exact(sgn, m, k) ==
    IF m = <<>> THEN Zero ELSE OddSignificand(sgn, m, k, BigTrailingZeros(m))

\* the daily hours of the location of the call: 8 for Onsite, 9 for any other
ClaimedHours == IF args.resource.location = Onsite THEN 8 ELSE 9

\* rateUSD * monthlyHours * f with rateUSD = rateCAD / 1.32 and monthlyHours
\* = 21 * h, every operation on doubles
CostOfFormula ==
    Mul(Mul(Div(args.resource.rateCAD, Decimal(132, -2)), Num(21 * ClaimedHours)), args.pct)

\* x is a normal double: finite, with a magnitude of at least 2^-1022
IsNormal(x) ==
    LET MinNormalExponent == -1022
    IN  x.m # <<>> /\ BigBits(x.m) + x.k > MinNormalExponent

\* 132 times the cost returned, and 100 * 21 * h times rate times fraction:
\* the two sides of cost * 1.32 = rateCAD * 21 * h * f as values
CostSide == Exact(ret.s, BigMulSmall(ret.m, 132), ret.k)
FormulaSide ==
    Exact(args.resource.rateCAD.s * args.pct.s,
          BigMulSmall(BigMul(args.resource.rateCAD.m, args.pct.m), 100 * 21 * ClaimedHours),
          args.resource.rateCAD.k + args.pct.k)

\* |a - b| * 2^bits <= |b| for significands a and b at one exponent
NearSignificands(a, b, bits) ==
    BigCmp(BigShl(IF BigCmp(a, b) < 0 THEN BigSub(b, a) ELSE BigSub(a, b), bits), b) <= 0

\* the values a and b of one sign differ by at most |b| / 2^bits, k the
\* smaller of their exponents
NearAt(a, b, bits, k) ==
    a.s = b.s /\ NearSignificands(BigShl(a.m, a.k - k), BigShl(b.m, b.k - k), bits)

Near(a, b, bits) == NearAt(a, b, bits, Smaller(a.k, b.k))

\* the amounts the specification names for 132 CAD
NamedCosts ==
    LET r == args.resource
        f == args.pct
    IN  /\ (r.rateCAD = Num(132) /\ r.location = Onsite /\ f = Num(1)) => ret = Num(16800)
        /\ (r.rateCAD = Num(132) /\ r.location = Onsite /\ f = Decimal(5, -1)) => ret = Num(8400)
        /\ (r.rateCAD = Num(132) /\ r.location = Offshore /\ f = Num(1)) => ret = Num(18900)

\* the cost onsite and the cost offshore of the resource at the fraction
OnsiteCost == calculateMonthlyResourceCostUSD([args.resource EXCEPT !.location = Onsite], args.pct)
OffshoreCost == calculateMonthlyResourceCostUSD([args.resource EXCEPT !.location = Offshore], args.pct)

\* C11: the monthly cost is (rateCAD / 1.32) * 21 * h * f with h = 8 for
\* Onsite and h = 9 for any other location: 16800 and 8400 for 132 CAD Onsite
\* at 1 and 0.5, 18900 Offshore at 1, and Offshore strictly above Onsite for
\* an equal positive rate and a positive fraction.
C11_MonthlyCost ==
    pc = "done" =>
        /\ ret = CostOfFormula
        /\ NamedCosts
        /\ (Less(Zero, args.resource.rateCAD) /\ Less(Zero, args.pct)) =>
               Less(OnsiteCost, OffshoreCost)

\* C11, amended: the monthly cost is rateUSD * monthlyHours * f in double
\* arithmetic; when rateCAD / 1.32 and the cost are normal doubles the cost
\* is within 2^-50 of the value of the formula; the named amounts for 132
\* CAD are met; for an equal positive rate and a positive fraction Offshore
\* is never below Onsite, and strictly above it when the cost onsite is a
\* normal double.
C11_MonthlyCostRounded ==
    pc = "done" =>
        /\ ret = CostOfFormula
        /\ (IsNormal(Div(args.resource.rateCAD, Decimal(132, -2))) /\ IsNormal(ret)) =>
               Near(CostSide, FormulaSide, 50)
        /\ NamedCosts
        /\ (Less(Zero, args.resource.rateCAD) /\ Less(Zero, args.pct)) =>
               /\ ~Less(OffshoreCost, OnsiteCost)
               /\ OnsiteCost # NaN /\ OffshoreCost # NaN
               /\ IsNormal(OnsiteCost) => Less(OnsiteCost, OffshoreCost)

\* the cost of the offshore resource at 132 CAD and full allocation was computed
C11_Witness ==
    /\ pc = "done"
    /\ args.resource.rateCAD = Num(132) /\ args.resource.location = Offshore /\ args.pct = Num(1)
    /\ ret = Num(18900)

\* the pieces of text between consecutive occurrences of the character sep
Pieces(text, sep) ==
    LET breaks == {0, Len(text) + 1} \cup {i \in 1..Len(text) : text[i] = sep}
        Kth(k) == CHOOSE b \in breaks : Cardinality({c \in breaks : c < b}) = k - 1
    IN  [k \in 1..(Cardinality(breaks) - 1) |-> SubSeq(text, Kth(k) + 1, Kth(k + 1) - 1)]

\* the (release, resource, month) triples the export has a row for: the
\* resource exists and has an allocation under the release, the month is in
\* the month list of the release (indexes into the drawn collections)
ExportTriples ==
    {t \in (1..Len(args.releases)) \X (1..Len(args.resources)) \X Range([i \in 1..3 |-> MonthToken(FirstMonth + i)]) :
        /\ \E k \in 1..Len(args.allocations) :
               /\ args.allocations[k].releaseId = args.releases[t[1]].id
               /\ args.allocations[k].resourceId = args.resources[t[2]].id
        /\ Includes(getMonthList(args.releases[t[1]].startMonth,
                                 args.releases[t[1]].endMonth, tz), t[3])}

\* the data lines of the export that are the row of triple t
RowsOfTriple(lines, t) ==
    {k \in 2..Len(lines) :
        LET f == Pieces(lines[k], ",")
        IN  /\ Len(f) = 10
            /\ f[1] = <<"\"">> \o args.releases[t[1]].name \o <<"\"">>
            /\ f[4] = <<"\"">> \o args.resources[t[2]].name \o <<"\"">>
            /\ f[8] = t[3]}

\* triple t has an allocation
HasAllocation(t) ==
    \E k \in 1..Len(args.allocations) :
        /\ args.allocations[k].releaseId = args.releases[t[1]].id
        /\ args.allocations[k].resourceId = args.resources[t[2]].id
        /\ args.allocations[k].monthStr = t[3]

\* C12: generateCSV emits the header row and exactly one data row for each
\* (release, resource, month) with the resource existing and allocated under
\* the release and the month in the release's span, and no other row; the
\* row of a triple without an allocation carries percentage 0 and cost 0.
C12_ExportRows ==
    pc = "done" =>
        LET lines == Pieces(ret, "\n")
        IN  /\ lines[1] = CsvHeaders
            /\ Len(lines) = 1 + Cardinality(ExportTriples)
            /\ \A t \in ExportTriples :
                   /\ Cardinality(RowsOfTriple(lines, t)) = 1
                   /\ ~HasAllocation(t) =>
                          \A k \in RowsOfTriple(lines, t) :
                              /\ Pieces(lines[k], ",")[9] = <<"0">>
                              /\ Pieces(lines[k], ",")[10] = <<"0", ".", "0", "0">>

\* a field without its surrounding quotes
Unquote(f) ==
    LET a == IF f # <<>> /\ f[1] = "\"" THEN Tail(f) ELSE f
    IN  IF a # <<>> /\ a[Len(a)] = "\"" THEN SubSeq(a, 1, Len(a) - 1) ELSE a

\* the tokens of a data line: its comma-separated fields that hold something
Tokens(line) == SelectSeq(Pieces(line, ","), LAMBDA f : f # <<>>)

\* the data lines parseCSV reads a row from: the first and the fourth token
\* exist and are not empty once unquoted
KeptRows ==
    SelectSeq(args.rows, LAMBDA line :
        /\ Len(Tokens(line)) >= 4
        /\ Unquote(Tokens(line)[1]) # <<>>
        /\ Unquote(Tokens(line)[4]) # <<>>)

\* the index of the first kept row whose n-th token is name
FirstRowNamed(n, name) ==
    CHOOSE k \in 1..Len(KeptRows) :
        /\ Unquote(Tokens(KeptRows[k])[n]) = name
        /\ \A j \in 1..(k - 1) : Unquote(Tokens(KeptRows[j])[n]) # name

\* C13: within one parseCSV call there is exactly one release per distinct
\* release name and one resource per distinct resource name, created with a
\* fresh identifier and the attributes of the first row carrying the name;
\* every row carrying the name refers to that identifier.
C13_DedupByName ==
    pc = "done" =>
        LET rels == ret.releases
            rs == ret.resources
            allocs == ret.allocations
        IN  /\ \A i, j \in 1..Len(rels) : rels[i].name = rels[j].name => i = j
            /\ \A i, j \in 1..Len(rs) : rs[i].name = rs[j].name => i = j
            /\ {rels[i].name : i \in 1..Len(rels)}
                   = {Unquote(Tokens(KeptRows[k])[1]) : k \in 1..Len(KeptRows)}
            /\ {rs[i].name : i \in 1..Len(rs)}
                   = {Unquote(Tokens(KeptRows[k])[4]) : k \in 1..Len(KeptRows)}
            /\ \A i \in 1..Len(rels) :
                   LET t == Tokens(KeptRows[FirstRowNamed(1, rels[i].name)])
                   IN  rels[i].startMonth = Unquote(t[2]) /\ rels[i].endMonth = Unquote(t[3])
            /\ \A i \in 1..Len(rs) :
                   LET t == Tokens(KeptRows[FirstRowNamed(4, rs[i].name)])
                   IN  rs[i].role = Unquote(t[5]) /\ rs[i].location = Unquote(t[6])
            /\ Cardinality(Ids(rels) \cup Ids(rs) \cup Ids(allocs))
                   = Len(rels) + Len(rs) + Len(allocs)
            /\ Len(allocs) = Len(KeptRows)
            /\ \A k \in 1..Len(allocs) :
                   /\ \E i \in 1..Len(rels) :
                          /\ rels[i].id = allocs[k].releaseId
                          /\ rels[i].name = Unquote(Tokens(KeptRows[k])[1])
                   /\ \E i \in 1..Len(rs) :
                          /\ rs[i].id = allocs[k].resourceId
                          /\ rs[i].name = Unquote(Tokens(KeptRows[k])[4])

\* two rows carried the same release name and the same resource name with
\* different attributes
C13_Witness ==
    /\ pc = "done"
    /\ args.rows = <<SampleRow1, SameNamesRow>>
    /\ Len(ret.releases) = 1 /\ Len(ret.resources) = 1 /\ Len(ret.allocations) = 2
    /\ ret.allocations[1].releaseId = ret.allocations[2].releaseId
    /\ ret.resources[1].location = Onsite

\* C14 as stated: the number of returned allocations equals the number of
\* data rows of the input.
C14_OneAllocationPerRow ==
    pc = "done" => Len(ret.allocations) = Len(args.rows)

\* C14, amended: parseCSV creates exactly one allocation with a fresh
\* identifier, in row order, for every data row it does not skip (a row
\* with a first and a fourth token that are not empty), whether or not the
\* row's fraction is zero; skipped rows create none.
C14_OneAllocationPerKeptRow ==
    pc = "done" =>
        /\ Len(ret.allocations) = Len(KeptRows)
        /\ \A k \in 1..Len(ret.allocations) :
               /\ ret.allocations[k].monthStr = Tokens(KeptRows[k])[8]
               /\ (Tokens(KeptRows[k])[9] = <<"0">>) => ret.allocations[k].percentage = Zero
        /\ \A j, k \in 1..Len(ret.allocations) :
               ret.allocations[j].id = ret.allocations[k].id => j = k

\* a row with fraction 0 followed a row with a fraction and each gave an
\* allocation
C14_Witness ==
    /\ pc = "done"
    /\ args.rows = <<SampleRow1, SameNamesRow>>
    /\ Len(ret.allocations) = 2
    /\ ret.allocations[2].percentage = Zero

\* the release-name field or the resource-name field of the line is empty
\* (the line has no such field, or the field holds nothing or only quotes)
NameFieldEmpty(line) ==
    LET f == Pieces(line, ",")
    IN  \/ Len(f) < 4
        \/ Unquote(f[1]) = <<>>
        \/ Unquote(f[4]) = <<>>

\* C15: a data row whose release-name or resource-name field is empty is
\* dropped entirely: the result is that of the file without such rows.
C15_EmptyNameRowsDropped ==
    pc = "done" =>
        ret = parseCSV(FileText(SelectSeq(args.rows, LAMBDA line : ~NameFieldEmpty(line))), 1)

RECURSIVE TokensFromTo(_, _)
\* the tokens of the months a..b in ascending order, none when a > b
TokensFromTo(a, b) == IF a > b THEN <<>> ELSE <<MonthToken(a)>> \o TokensFromTo(a + 1, b)

\* the list the calendar contract asks for: the months start..end inclusive
\* for two well-formed tokens, the empty list otherwise
ExpectedMonths(start, end) ==
    IF \E a, b \in MonthIdxs : start = MonthToken(a) /\ end = MonthToken(b)
    THEN LET a == CHOOSE x \in MonthIdxs : start = MonthToken(x)
             b == CHOOSE x \in MonthIdxs : end = MonthToken(x)
         IN  TokensFromTo(a, b)
    ELSE <<>>

\* C9: getMonthList(start, end) returns exactly the calendar months m with
\* start <= m <= end, each once, ascending, across year boundaries, and the
\* empty list when start is after end or an input is empty.
C9_MonthListExact ==
    pc = "done" => ret = ExpectedMonths(args.start, args.end)

\* C10: getMonthList is a function of its two tokens alone: the list returned
\* on this host is the list returned on a host in any other time zone.
C10_MonthListHostIndependent ==
    pc = "done" =>
        \A zone \in TimeZones : getMonthList(args.start, args.end, zone) = ret

\* C4: the breakdown's total equals the sum of its byMonth values and the
\* sum of its byResource values, for every release, resources and allocations.
C4_Conservation ==
    pc = "done" =>
        /\ ret.cost.total =
               SumValues(ret.cost.byMonth,
                         getMonthList(args.release.startMonth, args.release.endMonth, tz))
        /\ ret.cost.total =
               SumValues(ret.cost.byResource,
                         [i \in 1..Len(args.resources) |-> args.resources[i].id])

\* seq without its i-th element
RemoveAt(seq, i) == SubSeq(seq, 1, i - 1) \o SubSeq(seq, i + 1, Len(seq))

\* the allocations of the reported release whose month is not in its month list
OutOfRangeIdxs ==
    {i \in 1..Len(args.allocations) :
        /\ args.allocations[i].releaseId = args.release.id
        /\ ~Includes(getMonthList(args.release.startMonth, args.release.endMonth, tz),
                     args.allocations[i].monthStr)}

\* C7: an allocation whose month is outside the month list of its release
\* adds nothing to the total, to byMonth or to byResource, in the breakdown
\* and in calculateReleaseTotalCostUSD: both results are those of the
\* collection without it.
C7_OutOfRangeAddsNothing ==
    pc = "done" =>
        \A i \in OutOfRangeIdxs :
            /\ ret.cost = costData(args.release, args.resources, RemoveAt(args.allocations, i), tz)
            /\ ret.total = calculateReleaseTotalCostUSD(args.release, args.resources,
                               RemoveAt(args.allocations, i), tz)

\* an out-of-range allocation of a known resource was aggregated together
\* with an in-range one that does cost something
C7_Witness ==
    /\ pc = "done"
    /\ OutOfRangeIdxs # {}
    /\ \E i \in OutOfRangeIdxs :
          /\ FindResource(args.resources, args.allocations[i].resourceId) # 0
          /\ args.allocations[i].percentage = Num(1)
    /\ ret.total # Zero /\ ret.total # NaN

\* C8: calculateReleaseTotalCostUSD returns the total of the cost breakdown
\* computed for the same release from the same collections.
C8_TotalMatchesBreakdown ==
    pc = "done" => ret.total = ret.cost.total

\* both were computed over a collection holding an allocation that counts
\* and one that does not
C8_Witness ==
    /\ pc = "done"
    /\ Len(args.allocations) >= 2
    /\ ret.total # Zero /\ ret.total # NaN
    /\ \E i \in 1..Len(args.allocations) :
          \/ args.allocations[i].releaseId # args.release.id
          \/ FindResource(args.resources, args.allocations[i].resourceId) = 0
          \/ i \in OutOfRangeIdxs

\* C17: in every reachable state every allocation's percentage lies in the
\* closed range [0.0, 1.0].
C17_PercentageInRange ==
    \A k \in 1..Len(allocations) :
        LET p == allocations[k].percentage
        IN  p # NaN /\ ~Less(p, Zero) /\ ~Less(Num(1), p)

\* C19: in every reachable state every allocation's resourceId is the id of
\* a resource of the resource collection.
C19_NoOrphanAllocation ==
    \A k \in 1..Len(allocations) : allocations[k].resourceId \in Ids(resources)

\* C20: assigning a resource to the selected release adds exactly one
\* allocation per calendar month of the release's span start..end, in order,
\* each with percentage 1 and a fresh identifier, and changes no existing
\* allocation; without a selected release, a chosen resource or an existing
\* selected release the allocation collection is unchanged.
C20_AssignPerMonth ==
    [][last'.op = "assign" =>
          IF selectedReleaseId # 0 /\ resourceToAddId # 0 /\ selectedReleaseId \in Ids(releases)
          THEN LET rel == CHOOSE r \in Range(releases) : r.id = selectedReleaseId
                   months == ExpectedMonths(rel.startMonth, rel.endMonth)
                   n == Len(allocations)
               IN  /\ Len(allocations') = n + Len(months)
                   /\ SubSeq(allocations', 1, n) = allocations
                   /\ \A k \in 1..Len(months) :
                          /\ allocations'[n + k].releaseId = selectedReleaseId
                          /\ allocations'[n + k].resourceId = resourceToAddId
                          /\ allocations'[n + k].monthStr = months[k]
                          /\ allocations'[n + k].percentage = Num(1)
                          /\ allocations'[n + k].id \notin
                                 Ids(allocations) \cup Ids(releases) \cup Ids(resources)
                   /\ \A j, k \in (n + 1)..Len(allocations') :
                          allocations'[j].id = allocations'[k].id => j = k
          ELSE allocations' = allocations]_vars

\* C16: generateExecutiveSummary never rejects: for a missing credential, a
\* client-construction fault, a network fault or a service error the promise
\* resolves to a plain text message.
C16_NeverRejects ==
    /\ pc # "rejected"
    /\ (pc = "resolved" /\ (~args.apiKey \/ args.construct = "throws"
                            \/ args.service \in {"networkFault", "serviceError"}))
           => ret.text \in {KeyNotFoundMessage, ErrorMessage}

\* C18: for every release of a reachable state, the total and the amounts
\* per resource that generateExecutiveSummary derives equal the total and
\* the per-resource amounts of the cost breakdown, and the total equals
\* calculateReleaseTotalCostUSD.
C18_SummaryMatchesBreakdown ==
    \A i \in 1..Len(releases) :
        LET sum == SummaryTotals(releases[i], resources, allocations, tz)
            c == costData(releases[i], resources, allocations, tz)
        IN  /\ sum.totalCost = c.total
            /\ sum.totalCost = calculateReleaseTotalCostUSD(releases[i], resources, allocations, tz)
            /\ \A k \in 1..Len(resources) : sum.resCosts[k] = c.byResource[resources[k].id]

\* C21: in every reachable state, every allocation's releaseId is the id of
\* a release of the release collection.
C21_AllocationsHaveRelease ==
    \A k \in 1..Len(allocations) : allocations[k].releaseId \in Ids(releases)

\* the selected release was deleted and the allocations of another release
\* are still held
C21_Witness ==
    /\ last.op = "deleteRelease"
    /\ selectedReleaseId = 0
    /\ allocations # <<>>
    /\ last.id \notin Ids(releases)

\* C22: in every reachable state, selectedReleaseId is empty or the id of a
\* release of the release collection.
C22_SelectedReleasePresent ==
    selectedReleaseId = 0 \/ selectedReleaseId \in Ids(releases)

\* C23: whenever a summary is shown, it was generated for the release that
\* is selected now and from the collections held now (stated for the texts
\* the service writes: the fixed messages say nothing about a release).
C23_SummaryIsCurrent ==
    (SummaryDisplayed /\ aiSummary.text = ServiceText) =>
        aiSummary.data = PromptData(releases[ActiveReleaseIdx])

\* C24: whenever isGeneratingAi is true it becomes false again, on every
\* outcome of the generator, and at most one request is in flight.
C24_RequestCompletes ==
    /\ isGeneratingAi ~> ~isGeneratingAi
    /\ [](Len(pending) <= 1)

=============================================================================
